---- MODULE Spec2Model ----
(***************************************************************************)
(* Verification model of the n-gram suggestion engine: the per-user        *)
(* history (user_history.rs), the artifact lookups and the suggestion      *)
(* driver (suggest_hybrid.rs), the trigram cache builders                  *)
(* (build_trigram.rs, build_vi_trigram.rs), the bigram builders            *)
(* (build_bigram.rs, build_bigram_stream.rs), the canonical map they and   *)
(* the driver share (lib.rs) and the bigram validator (validate_bigram.rs).*)
(*                                                                         *)
(* Conventions.                                                            *)
(*  - A u32 is a pair <<hi, lo>> of 16-bit limbs, so that the user id      *)
(*    range 0x80000000 .. 0xFFFFFFF0 and misaligned four-byte reads keep   *)
(*    their exact values.  U32(n) builds one from a small natural number.  *)
(*  - Option<T> is <<>> (None) or <<x>> (Some(x)).                         *)
(*  - A character is an atom written as a short string; a word is a        *)
(*    sequence of characters; a text is the sequence of its                *)
(*    whitespace-separated pieces.                                         *)
(*  - A HashMap is a function on its key set.  Where the code's result     *)
(*    depends on the iteration order of a HashMap (the order of equal      *)
(*    keys after a stable sort), the model yields the set of all results   *)
(*    the iteration order can produce.                                     *)
(*  - f64 formulas built on ln are tabulated: each table entry is the      *)
(*    value of the source expression for that argument.                    *)
(***************************************************************************)
EXTENDS Integers, Sequences, FiniteSets, TLC

(***************************************************************************)
(* Model bounds.                                                           *)
(***************************************************************************)
\* learn calls made on one history
MaxLearns == 3
\* clock advances (each by one bigram half-life)
MaxTicks == 1
\* largest edge count of the score specification
MaxScoreCount == 704

(***************************************************************************)
(* Generic helpers.                                                        *)
(***************************************************************************)
None == <<>>
Some(x) == <<x>>
IsSome(o) == o # <<>>
Unwrap(o) == o[1]

Range(s) == { s[i] : i \in 1..Len(s) }
Min2(a, b) == IF a <= b THEN a ELSE b
Max2(a, b) == IF a >= b THEN a ELSE b

\* u32 values as two 16-bit limbs
U32(n) == << n \div 65536, n % 65536 >>
U32Less(a, b) == a[1] < b[1] \/ (a[1] = b[1] /\ a[2] < b[2])
U32Leq(a, b) == a = b \/ U32Less(a, b)
U32Inc(a) == IF a[2] = 65535 THEN << a[1] + 1, 0 >> ELSE << a[1], a[2] + 1 >>
U32Dec(a) == IF a[2] = 0 THEN << a[1] - 1, 65535 >> ELSE << a[1], a[2] - 1 >>

\* the elements of a finite set of u32 in increasing order
RECURSIVE U32Sorted(_)
U32Sorted(S) ==
  IF S = {} THEN << >>
  ELSE LET m == CHOOSE x \in S : \A y \in S : U32Leq(x, y)
       IN << m >> \o U32Sorted(S \ {m})

(***************************************************************************)
(* user_history.rs: constants.                                             *)
(***************************************************************************)
USER_ID_START == << 32768, 0 >>        \* 0x80000000
USER_ID_MAX == << 65535, 65520 >>      \* 0xFFFFFFF0
HL_BIGRAM_SEC == 604800
MAX_SCORE == 65535
\* TopNTracker::new(20) in learn
LEARN_TOP_N == 20

(***************************************************************************)
(* Characters.  The alphabet holds lowercase and uppercase letters, a      *)
(* precomposed letter and its decomposition, two conjoining Hangul jamo    *)
(* (U+1100, U+1161) and the syllable they compose (U+AC00), the three      *)
(* apostrophes, and characters that are not alphabetic.                    *)
(***************************************************************************)
LowerLetters ==
  { "a", "d", "e", "f", "g", "h", "i", "n", "o", "r", "s", "t", "x", "z", "e_acute" }
UpperLetters == { "H", "G", "E" }
ToLowerChar(c) ==
  CASE c = "H" -> "h"
    [] c = "G" -> "g"
    [] c = "E" -> "e"
    [] OTHER -> c
HangulLetters == { "JAMO_G", "JAMO_A", "SYL_GA" }
IsAlphabetic(c) == c \in LowerLetters \cup UpperLetters \cup HangulLetters
\* U+2019, U+2018 and the ASCII apostrophe
Apostrophes == { "RSQUO", "LSQUO" }
FoldApostrophe(c) == IF c \in Apostrophes THEN "'" ELSE c

\* NFC composition: e followed by the combining acute accent becomes the
\* precomposed letter, the leading jamo followed by the vowel jamo becomes
\* the syllable; every other sequence of the alphabet is already NFC
RECURSIVE Nfc(_)
Nfc(w) ==
  IF Len(w) = 0 THEN << >>
  ELSE IF Len(w) >= 2 /\ w[1] = "e" /\ w[2] = "COMB_ACUTE"
       THEN << "e_acute" >> \o Nfc(SubSeq(w, 3, Len(w)))
  ELSE IF Len(w) >= 2 /\ w[1] = "JAMO_G" /\ w[2] = "JAMO_A"
       THEN << "SYL_GA" >> \o Nfc(SubSeq(w, 3, Len(w)))
  ELSE << w[1] >> \o Nfc(Tail(w))

MapSeq(s, Op(_)) == [ i \in 1..Len(s) |-> Op(s[i]) ]
KeepChar(c) == IsAlphabetic(c) \/ c = "'"

\* user_history.rs normalize_token: NFC, fold apostrophes, lowercase, filter
normalize_token(raw) ==
  SelectSeq(MapSeq(MapSeq(Nfc(raw), FoldApostrophe), ToLowerChar), KeepChar)

NonEmptyWord(w) == w # << >>
\* user_history.rs tokenize: the pieces of the text, normalized, empties dropped
tokenize(text) == SelectSeq(MapSeq(text, normalize_token), NonEmptyWord)

(***************************************************************************)
(* Scores.  EdgeScoreAge0[c + 1] is                                        *)
(*   ((1.0 + c as f64).ln() * 10000.0).clamp(0.0, 65535.0) as u16          *)
(* for c in 0..720, and EdgeScoreAged[k][c + 1] the same with c replaced   *)
(* by c * 2^-k (an age of k half-lives), for k in 1..5 and c in 0..24.     *)
(* QuantizeTable[m][c] is quantize_weight(c, m) for 1 <= c <= m <= 11.     *)
(***************************************************************************)
EdgeScoreAge0 ==
  <<
     0, 6931, 10986, 13862, 16094, 17917, 19459, 20794, 21972, 23025, 23978, 24849,
     25649, 26390, 27080, 27725, 28332, 28903, 29444, 29957, 30445, 30910, 31354, 31780,
     32188, 32580, 32958, 33322, 33672, 34011, 34339, 34657, 34965, 35263, 35553, 35835,
     36109, 36375, 36635, 36888, 37135, 37376, 37612, 37841, 38066, 38286, 38501, 38712,
     38918, 39120, 39318, 39512, 39702, 39889, 40073, 40253, 40430, 40604, 40775, 40943,
     41108, 41271, 41431, 41588, 41743, 41896, 42046, 42195, 42341, 42484, 42626, 42766,
     42904, 43040, 43174, 43307, 43438, 43567, 43694, 43820, 43944, 44067, 44188, 44308,
     44426, 44543, 44659, 44773, 44886, 44998, 45108, 45217, 45325, 45432, 45538, 45643,
     45747, 45849, 45951, 46051, 46151, 46249, 46347, 46443, 46539, 46634, 46728, 46821,
     46913, 47004, 47095, 47184, 47273, 47361, 47449, 47535, 47621, 47706, 47791, 47874,
     47957, 48040, 48121, 48202, 48283, 48362, 48441, 48520, 48598, 48675, 48751, 48828,
     48903, 48978, 49052, 49126, 49199, 49272, 49344, 49416, 49487, 49558, 49628, 49698,
     49767, 49836, 49904, 49972, 50039, 50106, 50172, 50238, 50304, 50369, 50434, 50498,
     50562, 50625, 50689, 50751, 50814, 50875, 50937, 50998, 51059, 51119, 51179, 51239,
     51298, 51357, 51416, 51474, 51532, 51590, 51647, 51704, 51761, 51817, 51873, 51929,
     51984, 52040, 52094, 52149, 52203, 52257, 52311, 52364, 52417, 52470, 52522, 52574,
     52626, 52678, 52729, 52781, 52832, 52882, 52933, 52983, 53033, 53082, 53132, 53181,
     53230, 53278, 53327, 53375, 53423, 53471, 53518, 53565, 53612, 53659, 53706, 53752,
     53798, 53844, 53890, 53936, 53981, 54026, 54071, 54116, 54161, 54205, 54249, 54293,
     54337, 54380, 54424, 54467, 54510, 54553, 54595, 54638, 54680, 54722, 54764, 54806,
     54847, 54889, 54930, 54971, 55012, 55053, 55093, 55134, 55174, 55214, 55254, 55294,
     55333, 55373, 55412, 55451, 55490, 55529, 55568, 55606, 55645, 55683, 55721, 55759,
     55797, 55834, 55872, 55909, 55947, 55984, 56021, 56058, 56094, 56131, 56167, 56204,
     56240, 56276, 56312, 56347, 56383, 56419, 56454, 56489, 56524, 56559, 56594, 56629,
     56664, 56698, 56733, 56767, 56801, 56835, 56869, 56903, 56937, 56970, 57004, 57037,
     57071, 57104, 57137, 57170, 57203, 57235, 57268, 57300, 57333, 57365, 57397, 57430,
     57462, 57493, 57525, 57557, 57589, 57620, 57651, 57683, 57714, 57745, 57776, 57807,
     57838, 57868, 57899, 57930, 57960, 57990, 58021, 58051, 58081, 58111, 58141, 58171,
     58200, 58230, 58260, 58289, 58318, 58348, 58377, 58406, 58435, 58464, 58493, 58522,
     58550, 58579, 58607, 58636, 58664, 58692, 58721, 58749, 58777, 58805, 58833, 58861,
     58888, 58916, 58944, 58971, 58998, 59026, 59053, 59080, 59107, 59135, 59162, 59188,
     59215, 59242, 59269, 59295, 59322, 59348, 59375, 59401, 59427, 59454, 59480, 59506,
     59532, 59558, 59584, 59610, 59635, 59661, 59687, 59712, 59738, 59763, 59788, 59814,
     59839, 59864, 59889, 59914, 59939, 59964, 59989, 60014, 60038, 60063, 60088, 60112,
     60137, 60161, 60185, 60210, 60234, 60258, 60282, 60306, 60330, 60354, 60378, 60402,
     60426, 60450, 60473, 60497, 60520, 60544, 60567, 60591, 60614, 60637, 60661, 60684,
     60707, 60730, 60753, 60776, 60799, 60822, 60844, 60867, 60890, 60913, 60935, 60958,
     60980, 61003, 61025, 61047, 61070, 61092, 61114, 61136, 61158, 61180, 61202, 61224,
     61246, 61268, 61290, 61312, 61333, 61355, 61377, 61398, 61420, 61441, 61463, 61484,
     61506, 61527, 61548, 61569, 61590, 61612, 61633, 61654, 61675, 61696, 61717, 61737,
     61758, 61779, 61800, 61820, 61841, 61862, 61882, 61903, 61923, 61944, 61964, 61984,
     62005, 62025, 62045, 62065, 62085, 62106, 62126, 62146, 62166, 62186, 62205, 62225,
     62245, 62265, 62285, 62304, 62324, 62344, 62363, 62383, 62402, 62422, 62441, 62461,
     62480, 62499, 62519, 62538, 62557, 62576, 62595, 62614, 62633, 62653, 62672, 62690,
     62709, 62728, 62747, 62766, 62785, 62803, 62822, 62841, 62859, 62878, 62897, 62915,
     62934, 62952, 62971, 62989, 63007, 63026, 63044, 63062, 63080, 63099, 63117, 63135,
     63153, 63171, 63189, 63207, 63225, 63243, 63261, 63279, 63297, 63315, 63332, 63350,
     63368, 63385, 63403, 63421, 63438, 63456, 63473, 63491, 63508, 63526, 63543, 63561,
     63578, 63595, 63613, 63630, 63647, 63664, 63681, 63699, 63716, 63733, 63750, 63767,
     63784, 63801, 63818, 63835, 63851, 63868, 63885, 63902, 63919, 63935, 63952, 63969,
     63985, 64002, 64019, 64035, 64052, 64068, 64085, 64101, 64118, 64134, 64150, 64167,
     64183, 64199, 64216, 64232, 64248, 64264, 64281, 64297, 64313, 64329, 64345, 64361,
     64377, 64393, 64409, 64425, 64441, 64457, 64473, 64488, 64504, 64520, 64536, 64551,
     64567, 64583, 64599, 64614, 64630, 64645, 64661, 64676, 64692, 64707, 64723, 64738,
     64754, 64769, 64785, 64800, 64815, 64831, 64846, 64861, 64876, 64892, 64907, 64922,
     64937, 64952, 64967, 64982, 64997, 65012, 65027, 65042, 65057, 65072, 65087, 65102,
     65117, 65132, 65147, 65161, 65176, 65191, 65206, 65220, 65235, 65250, 65264, 65279,
     65294, 65308, 65323, 65337, 65352, 65366, 65381, 65395, 65410, 65424, 65439, 65453,
     65467, 65482, 65496, 65510, 65525, 65535, 65535, 65535, 65535, 65535, 65535, 65535,
     65535, 65535, 65535, 65535, 65535, 65535, 65535, 65535, 65535, 65535, 65535, 65535,
     65535
  >>

EdgeScoreAged ==
  <<
     << 0, 4054, 6931, 9162, 10986, 12527, 13862, 15040, 16094, 17047, 17917, 18718, 19459, 20149, 20794, 21400, 21972, 22512, 23025, 23513, 23978, 24423, 24849, 25257, 25649 >>,
     << 0, 2231, 4054, 5596, 6931, 8109, 9162, 10116, 10986, 11786, 12527, 13217, 13862, 14469, 15040, 15581, 16094, 16582, 17047, 17491, 17917, 18325, 18718, 19095, 19459 >>,
     << 0, 1177, 2231, 3184, 4054, 4855, 5596, 6286, 6931, 7537, 8109, 8649, 9162, 9650, 10116, 10560, 10986, 11394, 11786, 12163, 12527, 12878, 13217, 13545, 13862 >>,
     << 0, 606, 1177, 1718, 2231, 2719, 3184, 3629, 4054, 4462, 4855, 5232, 5596, 5947, 6286, 6613, 6931, 7239, 7537, 7827, 8109, 8383, 8649, 8909, 9162 >>,
     << 0, 307, 606, 896, 1177, 1451, 1718, 1978, 2231, 2478, 2719, 2954, 3184, 3409, 3629, 3844, 4054, 4260, 4462, 4660, 4855, 5045, 5232, 5415, 5596 >>
  >>

QuantizeTable ==
  <<
     << 0 >>,
     << 0, 45425 >>,
     << 0, 41347, 65535 >>,
     << 0, 32767, 51935, 65535 >>,
     << 0, 28224, 44734, 56448, 65535 >>,
     << 0, 25352, 40182, 50704, 58866, 65535 >>,
     << 0, 23344, 36999, 46688, 54203, 60343, 65535 >>,
     << 0, 21845, 34623, 43690, 50722, 56468, 61326, 65535 >>,
     << 0, 20673, 32767, 41347, 48003, 53441, 58039, 62021, 65535 >>,
     << 0, 19728, 31268, 39456, 45806, 50996, 55383, 59184, 62536, 65535 >>,
     << 0, 18943, 30025, 37887, 43986, 48969, 53182, 56831, 60050, 62930, 65535 >>
  >>

\* saturating u32 - u32 on clock values
SatSub(a, b) == IF a >= b THEN a - b ELSE 0

\* EdgeStat::score, for ages that are whole half-lives
EdgeStatScore(stat, t) ==
  LET age == SatSub(t, stat.last_used)
      k == age \div HL_BIGRAM_SEC
  IN IF k = 0 THEN EdgeScoreAge0[stat.count + 1]
     ELSE EdgeScoreAged[k][stat.count + 1]

\* a faulty EdgeStatTouch: the count is set, not added to
EdgeStatTouch_Overwrite(stat, t, delta) == [ count |-> delta, last_used |-> t ]

\* EdgeStat::touch (counts of the model stay far below u32::MAX)
EdgeStatTouch(stat, t, delta) == [ count |-> stat.count + delta, last_used |-> t ]
EdgeStatDefault == [ count |-> 0, last_used |-> 0 ]

\* WordStat::touch_commit
WordStatDefault == [ freq |-> 0, accept |-> 0, last_used |-> 0 ]
touch_commit(stat, t) == [ stat EXCEPT !.freq = @ + 1, !.last_used = t ]

(***************************************************************************)
(* user_history.rs: UserLexicon.                                           *)
(***************************************************************************)
EmptyMap == [ x \in {} |-> 0 ]
Put(f, k, v) == [ x \in DOMAIN f \cup {k} |-> IF x = k THEN v ELSE f[x] ]

\* UserLexicon::new
UserLexiconNew ==
  [ word_to_id |-> EmptyMap, id_to_meta |-> EmptyMap, next_id |-> USER_ID_START ]

\* a faulty NextIdAfter: next_id is not advanced
NextIdAfter_Stuck(id) == id

\* self.next_id += 1 (guarded by next_id < USER_ID_MAX: no overflow)
NextIdAfter(id) == U32Inc(id)

\* UserLexicon::get_or_create: the lexicon after the call and the returned Option
get_or_create(lex, word, t) ==
  IF word \in DOMAIN lex.word_to_id
  THEN LET id == lex.word_to_id[word]
       IN [ lex |-> IF id \in DOMAIN lex.id_to_meta
                    THEN [ lex EXCEPT !.id_to_meta[id].stat = touch_commit(@, t) ]
                    ELSE lex,
            ret |-> Some(id) ]
  ELSE IF U32Leq(USER_ID_MAX, lex.next_id)
  THEN [ lex |-> lex, ret |-> None ]
  ELSE LET id == lex.next_id
       IN [ lex |-> [ word_to_id |-> Put(lex.word_to_id, word, id),
                      id_to_meta |-> Put(lex.id_to_meta, id,
                                         [ word |-> word,
                                           stat |-> touch_commit(WordStatDefault, t) ]),
                      next_id |-> NextIdAfter(id) ],
            ret |-> Some(id) ]

(***************************************************************************)
(* user_history.rs: TopNTracker.                                           *)
(***************************************************************************)
\* TopNTracker::new
TopNTrackerNew(top_n) ==
  [ counts |-> EmptyMap,
    top_n |-> IF top_n = 0 THEN 20 ELSE top_n,
    prune_threshold |-> IF top_n = 0 THEN 2000 ELSE top_n * 100 ]

\* The orders a stable sort by score (descending) can give the keys of
\* counts: the entries come in the HashMap's iteration order, so entries of
\* equal score can come in any order.  Each order is built from its first
\* key on: a key of the greatest score among those left.
RECURSIVE SortedOrdersOf(_, _, _)
SortedOrdersOf(counts, keys, t) ==
  IF keys = {} THEN { << >> }
  ELSE LET best == { k \in keys : \A j \in keys :
                       EdgeStatScore(counts[k], t) >= EdgeStatScore(counts[j], t) }
       IN UNION { { << k >> \o p : p \in SortedOrdersOf(counts, keys \ {k}, t) } :
                  k \in best }
SortedOrders(counts, t) == SortedOrdersOf(counts, DOMAIN counts, t)

\* The entry sets that the sort by score followed by truncate(keep) can leave
TopKeySets(counts, keep, t) ==
  { Range(SubSeq(p, 1, Min2(keep, Len(p)))) : p \in SortedOrders(counts, t) }

\* a faulty prune: keep is top_n
PruneOutcomes_KeepTopN(tr, t) ==
  LET keep == tr.top_n
  IN IF Cardinality(DOMAIN tr.counts) <= keep THEN { tr }
     ELSE { [ tr EXCEPT !.counts = [ k \in K |-> tr.counts[k] ] ] :
              K \in TopKeySets(tr.counts, keep, t) }

\* TopNTracker::prune: the trackers it can leave
PruneOutcomes(tr, t) ==
  LET keep == tr.top_n * 2
  IN IF Cardinality(DOMAIN tr.counts) <= keep THEN { tr }
     ELSE { [ tr EXCEPT !.counts = [ k \in K |-> tr.counts[k] ] ] :
              K \in TopKeySets(tr.counts, keep, t) }

\* whether increment calls prune after its update
PruneTriggered(tr) == Cardinality(DOMAIN tr.counts) > tr.prune_threshold

\* TopNTracker::increment: the trackers it can leave
IncrementOutcomes(tr, next_id, delta, t) ==
  LET old == IF next_id \in DOMAIN tr.counts THEN tr.counts[next_id] ELSE EdgeStatDefault
      upd == [ tr EXCEPT !.counts = Put(tr.counts, next_id, EdgeStatTouch(old, t, delta)) ]
  IN IF PruneTriggered(upd) THEN PruneOutcomes(upd, t) ELSE { upd }

\* a faulty get_top: entries.truncate(self.top_n) is left out
GetTopOutcomes_NoTruncate(tr, t) ==
  { [ i \in 1..Len(p) |-> << p[i], EdgeStatScore(tr.counts[p[i]], t) >> ] :
      p \in SortedOrders(tr.counts, t) }

\* TopNTracker::get_top: the lists of (id, score) it can return
GetTopOutcomes(tr, t) ==
  { [ i \in 1..Min2(tr.top_n, Len(p)) |-> << p[i], EdgeStatScore(tr.counts[p[i]], t) >> ] :
      p \in SortedOrders(tr.counts, t) }

(***************************************************************************)
(* user_history.rs: UserHistory.                                           *)
(***************************************************************************)
\* the caller's global lookup (test_user_history.rs global_map)
GlobalMap ==
  ( << "h", "i" >> :> U32(100) ) @@ ( << "i", "s" >> :> U32(104) )
lookup_global(token) == IF token \in DOMAIN GlobalMap THEN Some(GlobalMap[token]) ELSE None

\* UserHistory::new
UserHistoryNew == [ lexicon |-> UserLexiconNew, bigrams |-> EmptyMap ]

\* a faulty OnLexiconFull: prev_id survives the unresolved token
OnLexiconFull_KeepPrev(st, calls2) == [ st EXCEPT !.calls = calls2 ]

\* learn, the "Lexicon full" branch: prev_id = None; continue
OnLexiconFull(st, calls2) == [ st EXCEPT !.prev_id = None, !.calls = calls2 ]

\* One pass of the loop of UserHistory::learn over a token.  The loop state
\* holds the history, prev_id, and two records kept for the properties: the
\* get_or_create calls made (word, whether it was known, what was returned)
\* and the prev ids whose tracker was pruned.
LearnStepOutcomes(st, token, t) ==
  LET g == lookup_global(token)
      c == get_or_create(st.h.lexicon, token, t)
      known == token \in DOMAIN st.h.lexicon.word_to_id
      lex2 == IF IsSome(g) THEN st.h.lexicon ELSE c.lex
      calls2 == IF IsSome(g) THEN st.calls
                ELSE Append(st.calls, [ word |-> token, known |-> known, ret |-> c.ret ])
  IN IF ~IsSome(g) /\ ~IsSome(c.ret)
     THEN { OnLexiconFull(st, calls2) }
     ELSE LET id == IF IsSome(g) THEN Unwrap(g) ELSE Unwrap(c.ret)
          IN IF IsSome(st.prev_id)
             THEN LET pid == Unwrap(st.prev_id)
                      tr == IF pid \in DOMAIN st.h.bigrams THEN st.h.bigrams[pid]
                            ELSE TopNTrackerNew(LEARN_TOP_N)
                      upd == [ tr EXCEPT !.counts =
                                 Put(tr.counts, id,
                                     EdgeStatTouch(IF id \in DOMAIN tr.counts
                                                   THEN tr.counts[id]
                                                   ELSE EdgeStatDefault, t, 1)) ]
                  IN { [ h |-> [ lexicon |-> lex2, bigrams |-> Put(st.h.bigrams, pid, tr2) ],
                         prev_id |-> Some(id),
                         calls |-> calls2,
                         pruned |-> IF PruneTriggered(upd)
                                    THEN st.pruned \cup {pid} ELSE st.pruned ] :
                         tr2 \in IncrementOutcomes(tr, id, 1, t) }
             ELSE { [ st EXCEPT !.h.lexicon = lex2, !.prev_id = Some(id), !.calls = calls2 ] }

RECURSIVE LearnLoop(_, _, _)
LearnLoop(st, tokens, t) ==
  IF tokens = << >> THEN { st }
  ELSE UNION { LearnLoop(st2, Tail(tokens), t) : st2 \in LearnStepOutcomes(st, Head(tokens), t) }

\* UserHistory::learn: the final loop states it can reach from history h
LearnOutcomes(h, text, t) ==
  LearnLoop([ h |-> h, prev_id |-> None, calls |-> << >>, pruned |-> {} ], tokenize(text), t)

\* UserHistory::predict: the lists it can return
PredictOutcomes(h, prev_id, t) ==
  IF prev_id \in DOMAIN h.bigrams THEN GetTopOutcomes(h.bigrams[prev_id], t) ELSE { << >> }

\* UserHistory::save: the JSON document.  TopNTracker's top_n and
\* prune_threshold are #[serde(skip)]: the document holds only counts.
Serialize(h) ==
  [ lexicon |-> h.lexicon,
    bigrams |-> [ p \in DOMAIN h.bigrams |-> [ counts |-> h.bigrams[p].counts ] ] ]

\* serde_json::from_reader into UserHistory: a skipped field is filled with
\* the Default of its type, which is 0 for usize
USIZE_DEFAULT == 0
Deserialize(doc) ==
  [ lexicon |-> doc.lexicon,
    bigrams |-> [ p \in DOMAIN doc.bigrams |->
                    [ counts |-> doc.bigrams[p].counts,
                      top_n |-> USIZE_DEFAULT,
                      prune_threshold |-> USIZE_DEFAULT ] ] ]

(***************************************************************************)
(* State.                                                                  *)
(***************************************************************************)
VARIABLES
  history,   \* the UserHistory in memory
  now,       \* now_sec(), the wall clock in seconds
  file,      \* the history file: [exists |-> FALSE], or exists, doc (the document
             \* save wrote), short (only a part of doc is there), locked (the
             \* file can be neither opened nor created)
  learns,    \* number of learn calls made (bounded by MaxLearns)
  ghost,     \* records about the history in memory, kept for the properties
  saved,     \* the history (and its records) that the last save wrote
  lastOp,    \* the operation that led to this state
  fs,        \* the artifact files on disk: bytes of each, or None when absent
  built,     \* what each builder selected, observed and wrote, for the properties
  reply,     \* the last engine operation and what it returned or printed
  edits      \* number of changes made to the artifact files after they were written

histVars == << history, now, file, learns, ghost, saved, lastOp >>
engVars == << fs, built, reply, edits >>
vars == << histVars, engVars >>

\* no artifact has been built and no engine operation has run
NoArtifacts ==
  /\ fs = [ enTri |-> None, viTri |-> None, enBi |-> None ]
  /\ built = [ en |-> None, vi |-> None, bi |-> None ]
  /\ reply = [ op |-> "none" ]
  /\ edits = 0

\* the clock of the model: it starts at StartSec and advances by half-lives
StartSec == 1762387200
Clock == { StartSec + k * HL_BIGRAM_SEC : k \in 0..MaxTicks }

\* texts given to learn (pieces as typed)
TextHiIs == << << "H", "i" >>, << "i", "s" >> >>
TextIsGox == << << "i", "s" >>, << "G", "o", "x" >> >>
TextGoxDont == << << "G", "o", "x" >>, << "4", "2" >>, << "d", "o", "n", "RSQUO", "t" >> >>
TextHiZedIsHi == << << "H", "i" >>, << "z", "e", "d" >>, << "i", "s" >>, << "h", "i" >> >>
Texts == { TextHiIs, TextIsGox, TextGoxDont, TextHiZedIsHi }

Tokens == UNION { Range(tokenize(text)) : text \in Texts }

GhostNew ==
  [ minted |-> << >>,     \* (word, id) of every id get_or_create created, in order
    calls |-> << >>,      \* the get_or_create calls of the last learn
    tokens |-> << >>,     \* the tokens of the last learn
    pairSeen |-> EmptyMap,\* adjacent token pair -> occurrences in the learned texts
    pruned |-> {} ]       \* prev ids whose tracker has been pruned

HistNew ==
  /\ history = UserHistoryNew
  /\ now = StartSec
  /\ file = [ exists |-> FALSE ]
  /\ learns = 0
  /\ ghost = GhostNew
  /\ saved = [ h |-> UserHistoryNew, ghost |-> GhostNew ]
  /\ lastOp = "new"

HistInit == HistNew /\ NoArtifacts

AdjCount(tokens, a, b) ==
  Cardinality({ i \in 1..(Len(tokens) - 1) : tokens[i] = a /\ tokens[i + 1] = b })
AdjPairs(tokens) == { << tokens[i], tokens[i + 1] >> : i \in 1..(Len(tokens) - 1) }

NewMints(calls) == SelectSeq(calls, LAMBDA c : ~c.known /\ IsSome(c.ret))
MintRecord(c) == [ word |-> c.word, id |-> Unwrap(c.ret) ]

\* history.learn(text, global_lookup)
LearnCall(text) ==
  /\ \E st \in LearnOutcomes(history, text, now) :
       /\ history' = st.h
       /\ ghost' =
            LET toks == tokenize(text)
            IN [ minted |-> ghost.minted \o MapSeq(NewMints(st.calls), MintRecord),
                 calls |-> st.calls,
                 tokens |-> toks,
                 pairSeen |->
                   [ pr \in DOMAIN ghost.pairSeen \cup AdjPairs(toks) |->
                       (IF pr \in DOMAIN ghost.pairSeen THEN ghost.pairSeen[pr] ELSE 0)
                       + AdjCount(toks, pr[1], pr[2]) ],
                 pruned |-> ghost.pruned \cup st.pruned ]
  /\ learns' = learns + 1
  /\ lastOp' = "learn"
  /\ UNCHANGED << now, file, saved >>
  /\ UNCHANGED engVars

Learn(text) == learns < MaxLearns /\ LearnCall(text)

\* learn called on texts of single words outside the words of the model, each
\* new to the lexicon, until one id is left: every call creates one id and
\* records no edge.  The lexicon entries of those words are not kept in the
\* model; next_id is.
LearnOtherWords ==
  /\ U32Less(history.lexicon.next_id, U32Dec(USER_ID_MAX))
  /\ history' = [ history EXCEPT !.lexicon.next_id = U32Dec(USER_ID_MAX) ]
  /\ lastOp' = "learn_other"
  /\ UNCHANGED << now, file, learns, ghost, saved >>
  /\ UNCHANGED engVars

\* the wall clock advances
Tick ==
  /\ now + HL_BIGRAM_SEC \in Clock
  /\ now' = now + HL_BIGRAM_SEC
  /\ lastOp' = "tick"
  /\ UNCHANGED << history, file, learns, ghost, saved >>
  /\ UNCHANGED engVars

\* history.save(path): File::create fails on a file that cannot be created
Save ==
  /\ IF file.exists /\ file.locked
     THEN /\ lastOp' = "save_err"
          /\ UNCHANGED << file, saved >>
     ELSE /\ file' = [ exists |-> TRUE, doc |-> Serialize(history), short |-> FALSE,
                       locked |-> FALSE ]
          /\ saved' = [ h |-> history, ghost |-> ghost ]
          /\ lastOp' = "save"
  /\ UNCHANGED << history, now, learns, ghost >>
  /\ UNCHANGED engVars

\* UserHistory::load(path): on Err the caller gets no history and keeps the
\* one it has
Load ==
  /\ IF ~file.exists
     THEN /\ history' = UserHistoryNew
          /\ ghost' = GhostNew
          /\ lastOp' = "load"
     ELSE IF file.locked \/ file.short
     THEN /\ lastOp' = "load_err"
          /\ UNCHANGED << history, ghost >>
     ELSE /\ history' = Deserialize(file.doc)
          /\ ghost' = [ saved.ghost EXCEPT !.calls = << >>, !.tokens = << >> ]
          /\ lastOp' = "load"
  /\ UNCHANGED << now, file, learns, saved >>
  /\ UNCHANGED engVars

HistNext ==
  \/ \E text \in Texts : Learn(text)
  \/ LearnOtherWords
  \/ Tick
  \/ Save
  \/ Load

Spec == HistInit /\ [][HistNext]_vars

(***************************************************************************)
(* Properties of the user history.                                         *)
(***************************************************************************)
EdgeCount(h, p, n) ==
  IF p \in DOMAIN h.bigrams /\ n \in DOMAIN h.bigrams[p].counts
  THEN h.bigrams[p].counts[n].count ELSE 0

\* the id a token has in history h, if any
IdOf(h, tok) ==
  IF tok \in DOMAIN GlobalMap THEN Some(GlobalMap[tok])
  ELSE IF tok \in DOMAIN h.lexicon.word_to_id THEN Some(h.lexicon.word_to_id[tok])
  ELSE None

GlobalIds == { GlobalMap[w] : w \in DOMAIN GlobalMap }
KnownIds(h) ==
  GlobalIds \cup { h.lexicon.word_to_id[w] : w \in DOMAIN h.lexicon.word_to_id }
            \cup DOMAIN h.bigrams

\* C1, as stated: after load of the file written by h.save, predict gives,
\* for every prev_id and at the same clock second, what h.predict gives: the
\* same ids with the same scores in the same order.
C1_SaveLoadPredict ==
  (lastOp = "load" /\ file.exists) =>
    \A p \in KnownIds(saved.h) :
      PredictOutcomes(history, p, now) = PredictOutcomes(saved.h, p, now)

InUserRange(id) == U32Leq(USER_ID_START, id) /\ U32Less(id, USER_ID_MAX)

\* C7: every id get_or_create created lies in [0x80000000, 0xFFFFFFF0), is
\* greater than every id created before it, belongs to one word only and is
\* no global id; a known word gets back the id it was first given.
C7_UserIds ==
  LET m == ghost.minted
  IN /\ \A i \in 1..Len(m) : InUserRange(m[i].id) /\ m[i].id \notin GlobalIds
     /\ \A i, j \in 1..Len(m) :
          i < j => U32Less(m[i].id, m[j].id) /\ m[i].word # m[j].word
     /\ \A k \in 1..Len(ghost.calls) :
          ghost.calls[k].known =>
            \E i \in 1..Len(m) :
              m[i].word = ghost.calls[k].word /\ ghost.calls[k].ret = Some(m[i].id)

\* two ids were created and a later learn looked up a word already known
C7_Witness ==
  /\ Len(ghost.minted) >= 2
  /\ \E k \in 1..Len(ghost.calls) : ghost.calls[k].known

\* C8: with next_id at USER_ID_MAX, get_or_create of an unknown word returns
\* None and leaves the lexicon's words and next_id as they were, and learn
\* adds, for every two ids p and n, exactly one count per position where two
\* adjacent tokens resolve to p and n: nothing into or out of an unresolved
\* token, nothing across it, and every edge between the resolved tokens
\* after it.
C8_LexiconFull ==
  [][ ( /\ lastOp' = "learn"
        /\ learns' = learns + 1
        /\ history.lexicon.next_id = USER_ID_MAX )
      =>
      LET toks == ghost'.tokens
          ids == KnownIds(history) \cup KnownIds(history')
      IN /\ history'.lexicon.next_id = history.lexicon.next_id
         /\ history'.lexicon.word_to_id = history.lexicon.word_to_id
         /\ DOMAIN history'.lexicon.id_to_meta = DOMAIN history.lexicon.id_to_meta
         /\ \A k \in 1..Len(ghost'.calls) :
              ~ghost'.calls[k].known => ghost'.calls[k].ret = None
         /\ \A p \in ids \ ghost'.pruned : \A n \in ids :
              EdgeCount(history', p, n) - EdgeCount(history, p, n)
                = Cardinality({ i \in 1..(Len(toks) - 1) :
                                  /\ IdOf(history, toks[i]) = Some(p)
                                  /\ IdOf(history, toks[i + 1]) = Some(n) })
    ]_vars

\* a learn on a full lexicon met an unknown word and recorded the edge
\* between the two known tokens that follow it
C8_Witness ==
  /\ lastOp = "learn"
  /\ history.lexicon.next_id = USER_ID_MAX
  /\ ghost.tokens = tokenize(TextHiZedIsHi)
  /\ \E k \in 1..Len(ghost.calls) : ghost.calls[k].ret = None
  /\ EdgeCount(history, U32(104), U32(100)) >= 1
  /\ EdgeCount(history, U32(100), U32(104)) = 0

\* C9: for tokens a and b that have ids, as long as the tracker of a was
\* never pruned, the count stored for (id(a), id(b)) is the number of times
\* the pair was adjacent in the learned texts (N after N texts holding it
\* once), and predict(id(a)) holds id(b) while a has at most top_n successors.
C9_EdgeCountIsN ==
  \A pr \in DOMAIN ghost.pairSeen :
    LET ia == IdOf(history, pr[1])
        ib == IdOf(history, pr[2])
    IN (IsSome(ia) /\ IsSome(ib) /\ Unwrap(ia) \notin ghost.pruned) =>
         /\ EdgeCount(history, Unwrap(ia), Unwrap(ib)) = ghost.pairSeen[pr]
         /\ Unwrap(ia) \in DOMAIN history.bigrams
         /\ LET tr == history.bigrams[Unwrap(ia)]
            IN Cardinality(DOMAIN tr.counts) <= tr.top_n =>
                 \A out \in PredictOutcomes(history, Unwrap(ia), now) :
                   \E i \in 1..Len(out) : out[i][1] = Unwrap(ib)

\* a pair was learned three times, at two different seconds, and is counted 3
C9_Witness ==
  \E pr \in DOMAIN ghost.pairSeen :
    /\ ghost.pairSeen[pr] = MaxLearns
    /\ IsSome(IdOf(history, pr[1])) /\ IsSome(IdOf(history, pr[2]))
    /\ Unwrap(IdOf(history, pr[1])) \notin ghost.pruned
    /\ InUserRange(Unwrap(IdOf(history, pr[2])))
    /\ EdgeCount(history, Unwrap(IdOf(history, pr[1])), Unwrap(IdOf(history, pr[2]))) = MaxLearns
    /\ now > StartSec

(***************************************************************************)
(* The edge score as a function of the count: histories in which the pair  *)
(* (hi, is) has been learned c times within one second, and one more learn *)
(* of it in that second.                                                   *)
(***************************************************************************)
IdHi == U32(100)
IdIs == U32(104)

\* the history after c calls learn("Hi is") at second StartSec: both tokens
\* are global, so the lexicon stays empty
HistoryAfterRepeats(c) ==
  IF c = 0 THEN UserHistoryNew
  ELSE [ lexicon |-> UserLexiconNew,
         bigrams |-> ( IdHi :> [ counts |-> ( IdIs :> [ count |-> c, last_used |-> StartSec ] ),
                                 top_n |-> TopNTrackerNew(LEARN_TOP_N).top_n,
                                 prune_threshold |->
                                   TopNTrackerNew(LEARN_TOP_N).prune_threshold ] ) ]

ScoreInit ==
  /\ \E c \in 0..MaxScoreCount :
       /\ history = HistoryAfterRepeats(c)
       /\ learns = c
       /\ ghost = [ GhostNew EXCEPT
                      !.pairSeen = IF c = 0 THEN EmptyMap
                                   ELSE ( << << "h", "i" >>, << "i", "s" >> >> :> c ) ]
  /\ now = StartSec
  /\ file = [ exists |-> FALSE ]
  /\ saved = [ h |-> UserHistoryNew, ghost |-> GhostNew ]
  /\ lastOp = "new"
  /\ NoArtifacts

LearnRepeat ==
  /\ EdgeCount(history, IdHi, IdIs) <= MaxScoreCount
  /\ LearnCall(TextHiIs)

ScoreNext == LearnRepeat

SpecScore == ScoreInit /\ [][ScoreNext]_vars

\* the score predict(id(hi)) returns for id(is)
PairScore(h, t) ==
  LET out == CHOOSE o \in PredictOutcomes(h, IdHi, t) : TRUE
      e == CHOOSE x \in Range(out) : x[1] = IdIs
  IN e[2]

\* C10, as stated: for every count c >= 1, one more learn of the pair
\* within the same second makes predict return a strictly greater score.
C10_StrictlyIncreasing ==
  [][ ( lastOp' = "learn" /\ now' = now /\ EdgeCount(history, IdHi, IdIs) >= 1 )
      => PairScore(history', now') > PairScore(history, now) ]_vars

\* C10, restated: one more learn within the same second gives a strictly
\* greater score while the score is below MAX_SCORE, and leaves a score of
\* MAX_SCORE at MAX_SCORE.
C10_IncreasingBelowCap ==
  [][ ( lastOp' = "learn" /\ now' = now /\ EdgeCount(history, IdHi, IdIs) >= 1 )
      => /\ PairScore(history, now) < MAX_SCORE
              => PairScore(history', now') > PairScore(history, now)
         /\ PairScore(history, now) = MAX_SCORE
              => PairScore(history', now') = MAX_SCORE ]_vars

\* a learn raised the count of the pair to at least 2, with a score below the cap
C10_Witness ==
  /\ lastOp = "learn"
  /\ EdgeCount(history, IdHi, IdIs) >= 2
  /\ PairScore(history, now) < MAX_SCORE
  /\ PairScore(history, now) > EdgeScoreAge0[2]


(***************************************************************************)
(* Artifact files.  A file is a sequence of bytes; offsets are 0-based as  *)
(* in the code.  A u32 that the code compares as a key is kept as a pair   *)
(* of limbs; a u32 that the code casts to usize and uses as an offset is   *)
(* kept as an integer, and every value of 2^24 or more as USIZE_SAT:       *)
(* usize has 64 bits, so no offset computed from it overflows, and every   *)
(* file of the model is shorter than 2^24 bytes, so every comparison with  *)
(* the file length and every index check gives the result of the exact     *)
(* value.                                                                  *)
(***************************************************************************)
USIZE_SAT == 16777216

HEADER_SIZE == 32
TRIGRAM_MAGIC == 1414678339   \* 0x54524743
BIGRAM_MAGIC == 1111970381    \* 0x4247524D
VERSION == 1

At(data, i) == data[i + 1]
InFile(data, i) == i < Len(data)

U16ToLe(n) == << n % 256, (n \div 256) % 256 >>
U32ToLe(n) ==
  << n % 256, (n \div 256) % 256, (n \div 65536) % 256, (n \div 16777216) % 256 >>
Zeros(k) == [ i \in 1..k |-> 0 ]

U16FromLe(data, off) == At(data, off) + 256 * At(data, off + 1)
U32FromLe(data, off) ==
  << At(data, off + 2) + 256 * At(data, off + 3), At(data, off) + 256 * At(data, off + 1) >>
UsizeFromLe(data, off) ==
  IF At(data, off + 3) # 0 THEN USIZE_SAT
  ELSE At(data, off) + 256 * At(data, off + 1) + 65536 * At(data, off + 2)

\* the outcome of a call: a panic (index out of bounds) or a returned value
Panic == [ panic |-> TRUE ]
Returned(v) == [ panic |-> FALSE, ret |-> v ]

(***************************************************************************)
(* Vocabularies.  word_id is the line of the word in the vocabulary file.  *)
(***************************************************************************)
W_the == << "t", "h", "e" >>
W_Hi == << "H", "i" >>
W_hi == << "h", "i" >>
W_dog == << "d", "o", "g" >>
W_is == << "i", "s" >>
W_to == << "t", "o" >>
W_God == << "G", "o", "d" >>
W_on == << "o", "n" >>
W_in == << "i", "n" >>
W_sit == << "s", "i", "t" >>

\* en.vocab.txt, and the probability en.lex.fst stores for each word
EnVocab == << W_the, W_Hi, W_hi, W_dog, W_is, W_to, W_God, W_on, W_in, W_sit >>
EnProb == << 250, 90, 80, 70, 240, 230, 60, 200, 210, 50 >>

\* vi.syllable.vocab.txt
ViVocab == << << "a", "n" >>, << "x", "e" >>, << "d", "i" >>, << "t", "e_acute" >>,
              << "H", "a" >> >>

to_lowercase(w) == MapSeq(w, ToLowerChar)

\* build_canonical_map: lower -> (best_id, best_prob, is_exact), one vocabulary
\* line after the other
\* a faulty CanonicalFold: the prior alone decides
RECURSIVE CanonicalFold_PriorOnly(_, _, _, _)
CanonicalFold_PriorOnly(vocab, prob, line, canonical) ==
  IF line >= Len(vocab) THEN canonical
  ELSE LET lower == to_lowercase(vocab[line + 1])
           seen == [ id |-> line, prob |-> prob[line + 1], exact |-> FALSE ]
           entry == IF lower \in DOMAIN canonical /\ ~(seen.prob > canonical[lower].prob)
                    THEN canonical[lower] ELSE seen
       IN CanonicalFold_PriorOnly(vocab, prob, line + 1, Put(canonical, lower, entry))

RECURSIVE CanonicalFold(_, _, _, _)
CanonicalFold(vocab, prob, line, canonical) ==
  IF line >= Len(vocab) THEN canonical
  ELSE LET word == vocab[line + 1]
           lower == to_lowercase(word)
           is_exact == word = lower
           seen == [ id |-> line, prob |-> prob[line + 1], exact |-> is_exact ]
           best == canonical[lower]
           entry ==
             IF lower \notin DOMAIN canonical THEN seen
             ELSE IF best.exact THEN best
             ELSE IF is_exact THEN seen
             ELSE IF seen.prob > best.prob THEN [ best EXCEPT !.id = line, !.prob = seen.prob ]
             ELSE best
       IN CanonicalFold(vocab, prob, line + 1, Put(canonical, lower, entry))

build_canonical_map(vocab, prob) ==
  LET canonical == CanonicalFold(vocab, prob, 0, EmptyMap)
  IN [ k \in DOMAIN canonical |-> canonical[k].id ]

canonical_map == build_canonical_map(EnVocab, EnProb)

\* syllable_to_id: a later line replaces an earlier one with the same lowercase
RECURSIVE SyllableFold(_, _, _)
SyllableFold(vocab, line, m) ==
  IF line >= Len(vocab) THEN m
  ELSE SyllableFold(vocab, line + 1, Put(m, to_lowercase(vocab[line + 1]), line))

syllable_to_id == SyllableFold(ViVocab, 0, EmptyMap)

\* vocab.get(next_id as usize)
VocabGet(vocab, next_id) ==
  IF next_id[1] = 0 /\ next_id[2] < Len(vocab) THEN Some(vocab[next_id[2] + 1]) ELSE None

\* (mw1, mw2).cmp(&(w1, w2))
PairCmp(mw1, mw2, w1, w2) ==
  IF mw1 = w1 /\ mw2 = w2 THEN "Equal"
  ELSE IF U32Less(mw1, w1) \/ (mw1 = w1 /\ U32Less(mw2, w2)) THEN "Less"
  ELSE "Greater"

(***************************************************************************)
(* lookup_trigram                                                          *)
(***************************************************************************)
\* for i in 0..len: the edge at edges_base + edges_start_offset + i * 8
RECURSIVE TrigramEdges(_, _, _, _, _, _)
TrigramEdges(data, vocab, first, len, i, results) ==
  IF i >= len THEN Returned(Some(results))
  ELSE LET off == first + i * 8
       IN IF ~InFile(data, off + 5) THEN Panic
          ELSE LET w == VocabGet(vocab, U32FromLe(data, off))
                   weight == U16FromLe(data, off + 4)
               IN TrigramEdges(data, vocab, first, len, i + 1,
                    IF IsSome(w) THEN Append(results, << Unwrap(w), weight >>)
                    ELSE results)

\* while low < high
RECURSIVE TrigramSearch(_, _, _, _, _, _, _)
TrigramSearch(data, w1, w2, vocab, num_pairs, low, high) ==
  IF ~(low < high) THEN Returned(None)
  ELSE LET mid == low + (high - low) \div 2
           entry_offset == HEADER_SIZE + mid * 16
       IN IF ~InFile(data, entry_offset + 7) THEN Panic
          ELSE LET ord == PairCmp(U32FromLe(data, entry_offset),
                                  U32FromLe(data, entry_offset + 4), w1, w2)
               IN CASE ord = "Equal" ->
                         IF ~InFile(data, entry_offset + 13) THEN Panic
                         ELSE LET edges_start_offset == UsizeFromLe(data, entry_offset + 8)
                                  len == U16FromLe(data, entry_offset + 12)
                                  edges_base == HEADER_SIZE + num_pairs * 16
                              IN TrigramEdges(data, vocab, edges_base + edges_start_offset,
                                              len, 0, << >>)
                    [] ord = "Less" ->
                         TrigramSearch(data, w1, w2, vocab, num_pairs, mid + 1, high)
                    [] OTHER ->
                         TrigramSearch(data, w1, w2, vocab, num_pairs, low, mid)

lookup_trigram(data, w1, w2, vocab) ==
  IF ~InFile(data, 11) THEN Panic
  ELSE LET num_pairs == UsizeFromLe(data, 8)
       IN TrigramSearch(data, w1, w2, vocab, num_pairs, 0, num_pairs)

(***************************************************************************)
(* lookup_bigram                                                           *)
(***************************************************************************)
\* a faulty BigramEdges: each result is put in front of the list
RECURSIVE BigramEdges_Reversed(_, _, _, _, _, _)
BigramEdges_Reversed(data, vocab, first, len, i, results) ==
  IF i >= len THEN results
  ELSE LET off == first + i * 8
       IN IF off + 6 > Len(data) THEN results
          ELSE LET w == VocabGet(vocab, U32FromLe(data, off))
                   weight == U16FromLe(data, off + 4)
               IN BigramEdges_Reversed(data, vocab, first, len, i + 1,
                    IF IsSome(w) THEN << << Unwrap(w), weight >> >> \o results
                    ELSE results)

\* for i in 0..len, leaving the loop at the first edge that is not in the file
RECURSIVE BigramEdges(_, _, _, _, _, _)
BigramEdges(data, vocab, first, len, i, results) ==
  IF i >= len THEN results
  ELSE LET off == first + i * 8
       IN IF off + 6 > Len(data) THEN results
          ELSE LET w == VocabGet(vocab, U32FromLe(data, off))
                   weight == U16FromLe(data, off + 4)
               IN BigramEdges(data, vocab, first, len, i + 1,
                    IF IsSome(w) THEN Append(results, << Unwrap(w), weight >>)
                    ELSE results)

\* w_id is below 2^16 in the model, so (w_id as usize) * 8 is computed exactly
lookup_bigram(data, w_id, vocab) ==
  IF ~InFile(data, 11) THEN Panic
  ELSE LET vocab_size == UsizeFromLe(data, 8)
           index_offset == HEADER_SIZE + w_id[2] * 8
       IN IF index_offset + 8 > HEADER_SIZE + vocab_size * 8 THEN Returned(None)
          ELSE IF index_offset + 6 > Len(data) THEN Returned(None)
          ELSE LET edges_offset == UsizeFromLe(data, index_offset)
                   len == U16FromLe(data, index_offset + 4)
                   edges_base == HEADER_SIZE + vocab_size * 8
               IN IF len = 0 THEN Returned(None)
                  ELSE Returned(Some(BigramEdges(data, vocab, edges_base + edges_offset,
                                                 len, 0, << >>)))

(***************************************************************************)
(* apply_gating                                                            *)
(***************************************************************************)
boost_words ==
  { << "t", "o" >>, << "f", "o", "r" >>, << "a", "r", "e" >>, << "i", "s" >>,
    << "o", "f" >>, << "t", "h", "e" >>, << "a" >>, << "i", "n" >>, << "o", "n" >>,
    << "t", "h", "a", "t" >> }

IsBoost(e) == e[1] \in boost_words

\* boosted.push((w, s)) / others.push((w, s))
GatingPush_Front(list, e) == << e >> \o list
GatingPush(list, e) == Append(list, e)

\* for (w, s) in suggestions.drain(..)
RECURSIVE DrainLoop(_, _, _)
DrainLoop(rest, boosted, others) ==
  IF rest = << >> THEN [ boosted |-> boosted, others |-> others ]
  ELSE IF IsBoost(Head(rest))
       THEN DrainLoop(Tail(rest), GatingPush(boosted, Head(rest)), others)
       ELSE DrainLoop(Tail(rest), boosted, GatingPush(others, Head(rest)))

\* suggestions.extend(boosted); suggestions.extend(others)
apply_gating(suggestions) ==
  LET parts == DrainLoop(suggestions, << >>, << >>)
  IN parts.boosted \o parts.others

(***************************************************************************)
(* suggest_hybrid: one query.  The result records the steps of the call in *)
(* the order the code takes them.                                          *)
(***************************************************************************)
\* w.to_lowercase().chars().filter(|c| c.is_alphabetic() || *c == '\'')
hybrid_normalize(w) == SelectSeq(to_lowercase(w), KeepChar)

\* the list the for loop over final_suggestions prints
Display_Top5(list) == SubSeq(list, 1, Min2(5, Len(list)))
Display(list) == list

\* the last two normalized words both have an id
LastTwoMap(normalized) ==
  /\ Len(normalized) >= 2
  /\ normalized[Len(normalized) - 1] \in DOMAIN canonical_map
  /\ normalized[Len(normalized)] \in DOMAIN canonical_map

\* the trigram attempt: None when it is not made, else what lookup_trigram gave
TrigramAttempt(files, normalized) ==
  IF IsSome(files.enTri) /\ LastTwoMap(normalized)
  THEN Some(lookup_trigram(Unwrap(files.enTri),
                           U32(canonical_map[normalized[Len(normalized) - 1]]),
                           U32(canonical_map[normalized[Len(normalized)]]), EnVocab))
  ELSE None

\* if !results.is_empty() { final_suggestions = results; source = "Trigram"; found = true }
TrigramFound(tri) ==
  IsSome(tri) /\ ~Unwrap(tri).panic /\ IsSome(Unwrap(tri).ret)
  /\ Unwrap(Unwrap(tri).ret) # << >>

\* the bigram attempt (if !found), the same way
BigramAttempt(files, normalized, tri) ==
  IF ~TrigramFound(tri) /\ normalized[Len(normalized)] \in DOMAIN canonical_map
  THEN Some(lookup_bigram(Unwrap(files.enBi),
                          U32(canonical_map[normalized[Len(normalized)]]), EnVocab))
  ELSE None

\* if let Some(results) = lookup_bigram(..) { final_suggestions = results; source = "Bigram";
\* found = true }
BigramFound(bi) == IsSome(bi) /\ ~Unwrap(bi).panic /\ IsSome(Unwrap(bi).ret)

AttemptStep(kind, attempt) ==
  IF IsSome(attempt) THEN << [ ev |-> kind, res |-> Unwrap(attempt) ] >> ELSE << >>
SourceStep(name, attempt) ==
  << [ ev |-> "source", source |-> name, list |-> Unwrap(Unwrap(attempt).ret) ] >>

\* apply_gating(&mut final_suggestions) and the lines printed
Gated(steps, name, final_suggestions) ==
  [ panic |-> FALSE,
    steps |-> Append(steps, [ ev |-> "apply_gating", input |-> final_suggestions,
                              output |-> apply_gating(final_suggestions) ]),
    source |-> name, found |-> TRUE,
    printed |-> Display(apply_gating(final_suggestions)) ]

SuggestOutcome(tri, bi) ==
  IF IsSome(tri) /\ Unwrap(tri).panic
  THEN [ panic |-> TRUE, steps |-> AttemptStep("lookup_trigram", tri) ]
  ELSE IF TrigramFound(tri)
  THEN Gated(AttemptStep("lookup_trigram", tri) \o SourceStep("Trigram", tri),
             "Trigram", Unwrap(Unwrap(tri).ret))
  ELSE IF IsSome(bi) /\ Unwrap(bi).panic
  THEN [ panic |-> TRUE,
         steps |-> AttemptStep("lookup_trigram", tri) \o AttemptStep("lookup_bigram", bi) ]
  ELSE IF BigramFound(bi)
  THEN Gated(AttemptStep("lookup_trigram", tri) \o AttemptStep("lookup_bigram", bi)
             \o SourceStep("Bigram", bi),
             "Bigram", Unwrap(Unwrap(bi).ret))
  ELSE [ panic |-> FALSE,
         steps |-> AttemptStep("lookup_trigram", tri) \o AttemptStep("lookup_bigram", bi),
         source |-> "None", found |-> FALSE, printed |-> << >> ]

SuggestAfterTrigram(files, normalized, tri) ==
  SuggestOutcome(tri, BigramAttempt(files, normalized, tri))

SuggestWords(files, normalized) ==
  SuggestAfterTrigram(files, normalized, TrigramAttempt(files, normalized))

Suggest(files, sentence) ==
  IF sentence = << >>
  THEN [ panic |-> FALSE, steps |-> << >>, source |-> "None", found |-> FALSE,
         printed |-> << >> ]
  ELSE SuggestWords(files, MapSeq(sentence, hybrid_normalize))

(***************************************************************************)
(* The trigram cache builders (build_trigram, build_vi_trigram).  A corpus *)
(* is a sequence of lines, a line the sequence of its whitespace-separated *)
(* words.  The order in which a HashMap is iterated is not fixed: every    *)
(* order is an outcome, and the stable sorts that follow keep it among     *)
(* equal counts.                                                           *)
(***************************************************************************)
\* build_trigram.rs normalize_token
build_normalize_token(word) == SelectSeq(to_lowercase(word), KeepChar)

\* the id of each word of a line, or None where the chain is reset
EnLineIds(line) ==
  [ i \in 1..Len(line) |->
      LET normalized == build_normalize_token(line[i])
      IN IF normalized = << >> THEN None
         ELSE IF normalized \in DOMAIN canonical_map THEN Some(canonical_map[normalized])
         ELSE None ]
ViLineIds(line) ==
  [ i \in 1..Len(line) |->
      LET norm == to_lowercase(line[i])
      IN IF norm \in DOMAIN syllable_to_id THEN Some(syllable_to_id[norm]) ELSE None ]
LineIds(lang, line) == IF lang = "en" THEN EnLineIds(line) ELSE ViLineIds(line)

\* *map.entry(k).or_insert(0) += 1
Bump(m, k) == Put(m, k, IF k \in DOMAIN m THEN m[k] + 1 ELSE 1)

\* pass 1, the words of one line
RECURSIVE CountWords(_, _, _, _, _)
CountWords(ids, i, prev_prev_id, prev_id, pair_freq) ==
  IF i > Len(ids) THEN pair_freq
  ELSE IF IsSome(ids[i])
       THEN CountWords(ids, i + 1, prev_id, ids[i],
              IF IsSome(prev_prev_id) /\ IsSome(prev_id)
              THEN Bump(pair_freq, << Unwrap(prev_prev_id), Unwrap(prev_id) >>)
              ELSE pair_freq)
       ELSE CountWords(ids, i + 1, None, None, pair_freq)

\* pass 1, line after line
RECURSIVE CountLines(_, _, _, _)
CountLines(lang, corpus, j, pair_freq) ==
  IF j > Len(corpus) THEN pair_freq
  ELSE CountLines(lang, corpus, j + 1,
         CountWords(LineIds(lang, corpus[j]), 1, None, None, pair_freq))

\* pass 2, the words of one line: trigram_counts of the selected pairs
RECURSIVE CollectWords(_, _, _, _, _, _)
CollectWords(ids, i, prev_prev_id, prev_id, top_pairs, trigram_counts) ==
  IF i > Len(ids) THEN trigram_counts
  ELSE IF IsSome(ids[i])
       THEN CollectWords(ids, i + 1, prev_id, ids[i], top_pairs,
              IF IsSome(prev_prev_id) /\ IsSome(prev_id)
                 /\ << Unwrap(prev_prev_id), Unwrap(prev_id) >> \in top_pairs
              THEN LET pr == << Unwrap(prev_prev_id), Unwrap(prev_id) >>
                   IN [ trigram_counts EXCEPT ![pr] = Bump(@, Unwrap(ids[i])) ]
              ELSE trigram_counts)
       ELSE CollectWords(ids, i + 1, None, None, top_pairs, trigram_counts)

RECURSIVE CollectLines(_, _, _, _, _)
CollectLines(lang, corpus, j, top_pairs, trigram_counts) ==
  IF j > Len(corpus) THEN trigram_counts
  ELSE CollectLines(lang, corpus, j + 1, top_pairs,
         CollectWords(LineIds(lang, corpus[j]), 1, None, None, top_pairs, trigram_counts))

\* map.into_iter().collect(): the entries (key, count) in any order
Entries(m) == { << k, m[k] >> : k \in DOMAIN m }
Orderings(S) ==
  { p \in [ 1..Cardinality(S) -> S ] : \A i, j \in 1..Cardinality(S) : i # j => p[i] # p[j] }

\* sort_by(|a, b| b.1.cmp(&a.1)): stable, by count descending
InsertDesc(sorted, e) ==
  LET after == { i \in 1..Len(sorted) : sorted[i][2] < e[2] }
      at == IF after = {} THEN Len(sorted) + 1
            ELSE CHOOSE i \in after : \A k \in after : i <= k
  IN SubSeq(sorted, 1, at - 1) \o << e >> \o SubSeq(sorted, at, Len(sorted))
RECURSIVE SortDescFrom(_, _, _)
SortDescFrom(list, i, sorted) ==
  IF i > Len(list) THEN sorted ELSE SortDescFrom(list, i + 1, InsertDesc(sorted, list[i]))
SortDesc(list) == SortDescFrom(list, 1, << >>)

\* Vec::truncate
Truncate(list, k) == SubSeq(list, 1, Min2(k, Len(list)))

\* the selected pairs: every outcome of collect, sort_by, truncate(max_pairs)
TopPairsOutcomes(pair_freq, max_pairs) ==
  { { e[1] : e \in Range(Truncate(SortDesc(p), max_pairs)) } :
      p \in Orderings(Entries(pair_freq)) }

\* a faulty quantize_weight: the larger the count, the smaller the weight
quantize_weight_Falling(count, max_count) ==
  IF count = 0 \/ max_count = 0 THEN 0 ELSE 65535 - QuantizeTable[max_count][count]

quantize_weight(count, max_count) ==
  IF count = 0 \/ max_count = 0 THEN 0 ELSE QuantizeTable[max_count][count]

\* the weighted successors of one pair: collect, sort_by, truncate(top_n), quantize
WeightedOutcomes(counts, top_n) ==
  { LET nexts == Truncate(SortDesc(p), top_n)
        max_count == IF nexts = << >> THEN 1 ELSE nexts[1][2]
    IN [ i \in 1..Len(nexts) |-> << nexts[i][1], quantize_weight(nexts[i][2], max_count) >> ] :
      p \in Orderings(Entries(counts)) }

\* pair_data.sort_by_key(|((a, b), _)| (*a, *b))
PairLess(a, b) == a[1] < b[1] \/ (a[1] = b[1] /\ a[2] < b[2])
\* a faulty SortPairs: the greatest pair comes first
RECURSIVE SortPairs_Descending(_)
SortPairs_Descending(S) ==
  IF S = {} THEN << >>
  ELSE LET most == CHOOSE x \in S : \A y \in S : x = y \/ PairLess(y, x)
       IN << most >> \o SortPairs_Descending(S \ { most })

RECURSIVE SortPairs(_)
SortPairs(S) ==
  IF S = {} THEN << >>
  ELSE LET least == CHOOSE x \in S : \A y \in S : x = y \/ PairLess(x, y)
       IN << least >> \o SortPairs(S \ { least })

\* edge_offset += ... after the index entry of a pair
EdgeOffsetStepEn(edges) == Len(edges) * 8
EdgeOffsetStepVi(edges) == Len(edges)
EdgeOffsetStep(lang, edges) ==
  IF lang = "en" THEN EdgeOffsetStepEn(edges) ELSE EdgeOffsetStepVi(edges)

TrigramHeader(num_pairs, top_n) ==
  U32ToLe(TRIGRAM_MAGIC) \o U32ToLe(VERSION) \o U32ToLe(num_pairs) \o U32ToLe(top_n)
  \o Zeros(16)

RECURSIVE TrigramIndex(_, _, _, _, _)
TrigramIndex(lang, keys, pair_data, i, edge_offset) ==
  IF i > Len(keys) THEN << >>
  ELSE LET edges == pair_data[keys[i]]
       IN U32ToLe(keys[i][1]) \o U32ToLe(keys[i][2]) \o U32ToLe(edge_offset)
          \o U16ToLe(Len(edges) % 65536) \o Zeros(2)
          \o TrigramIndex(lang, keys, pair_data, i + 1, edge_offset + EdgeOffsetStep(lang, edges))

\* a faulty EdgeRecords: the two flag bytes are not written
RECURSIVE EdgeRecords_NoFlags(_, _)
EdgeRecords_NoFlags(edges, i) ==
  IF i > Len(edges) THEN << >>
  ELSE U32ToLe(edges[i][1]) \o U16ToLe(edges[i][2]) \o EdgeRecords_NoFlags(edges, i + 1)

RECURSIVE EdgeRecords(_, _)
EdgeRecords(edges, i) ==
  IF i > Len(edges) THEN << >>
  ELSE U32ToLe(edges[i][1]) \o U16ToLe(edges[i][2]) \o Zeros(2) \o EdgeRecords(edges, i + 1)

RECURSIVE TrigramEdgeSection(_, _, _)
TrigramEdgeSection(keys, pair_data, i) ==
  IF i > Len(keys) THEN << >>
  ELSE EdgeRecords(pair_data[keys[i]], 1) \o TrigramEdgeSection(keys, pair_data, i + 1)

\* the bytes written for pair_data (a function from the written pairs to their edges)
TrigramFile(lang, pair_data, top_n) ==
  LET keys == SortPairs(DOMAIN pair_data)
  IN TrigramHeader(Len(keys), top_n) \o TrigramIndex(lang, keys, pair_data, 1, 0)
     \o TrigramEdgeSection(keys, pair_data, 1)

\* one run of a builder: the file, the pairs written to the pair table and the
\* successors observed after each of them
BuildOutcomes(lang, corpus, max_pairs, top_n) ==
  LET pair_freq == CountLines(lang, corpus, 1, EmptyMap)
  IN UNION {
       LET trigram_counts ==
             CollectLines(lang, corpus, 1, top_pairs, [ pr \in top_pairs |-> EmptyMap ])
           kept == { pr \in top_pairs : DOMAIN trigram_counts[pr] # {} }
           lists == UNION { WeightedOutcomes(trigram_counts[pr], top_n) : pr \in kept }
       IN { [ data |-> TrigramFile(lang, pair_data, top_n),
              pairs |-> kept,
              succ |-> [ pr \in kept |-> DOMAIN trigram_counts[pr] ],
              pair_freq |-> pair_freq,
              top_pairs |-> top_pairs,
              trigram_counts |-> trigram_counts ] :
            pair_data \in { f \in [ kept -> lists ] :
                              \A pr \in kept :
                                f[pr] \in WeightedOutcomes(trigram_counts[pr], top_n) } } :
       top_pairs \in TopPairsOutcomes(pair_freq, max_pairs) }

(***************************************************************************)
(* Building the trigram caches and looking up the pairs they hold.         *)
(***************************************************************************)
MaxPairs == 2
MaxTopN == 2

EnCorpusA == << << W_the, W_dog, W_is, W_Hi >>, << W_the, W_dog, W_sit >> >>
EnCorpusB ==
  << << W_God, << "i", "s", "4" >>, W_on, << "z", "e", "d" >>, W_in >>,
     << W_God, W_is, W_on, W_the >>, << << "4", "2" >>, W_to, W_the >> >>
EnCorpusC == << << W_the, W_dog, W_is, W_Hi >> >>
EnCorpusD == << << W_the, W_dog, W_is >>, << W_the, W_dog, W_is >>, << W_the, W_dog, W_sit >> >>
EnCorpora == { EnCorpusA, EnCorpusB, EnCorpusC, EnCorpusD }

ViCorpusA == << << ViVocab[1], ViVocab[2], ViVocab[3], ViVocab[4] >> >>
ViCorpusB ==
  << << ViVocab[1], ViVocab[2], ViVocab[3], ViVocab[4] >>,
     << << "a", "n" >>, << "x", "e" >>, << "d", "i" >> >>,
     << << "A"  >>, << "a", "n" >>, << "x", "e" >>, << "h", "a" >> >> >>
ViCorpora == { ViCorpusA, ViCorpusB }

VocabOf(lang) == IF lang = "en" THEN EnVocab ELSE ViVocab
TrigramOf(files, lang) == IF lang = "en" THEN files.enTri ELSE files.viTri

\* what a run of a builder selected and observed
BuiltRecord(o, top_n) ==
  Some([ pairs |-> o.pairs, succ |-> o.succ, top_n |-> top_n, pair_freq |-> o.pair_freq,
         top_pairs |-> o.top_pairs, trigram_counts |-> o.trigram_counts ])

\* one run of build_trigram, which writes en.trigram.cache.bin
BuildEnTrigram ==
  /\ \E corpus \in EnCorpora, max_pairs \in 1..MaxPairs, top_n \in 0..MaxTopN :
       \E o \in BuildOutcomes("en", corpus, max_pairs, top_n) :
         /\ fs' = [ fs EXCEPT !.enTri = Some(o.data) ]
         /\ built' = [ built EXCEPT !.en = BuiltRecord(o, top_n) ]
         /\ reply' = [ op |-> "build_trigram", lang |-> "en", max_pairs |-> max_pairs,
                      top_n |-> top_n ]
  /\ UNCHANGED << edits, histVars >>

\* one run of build_vi_trigram, which writes vi.trigram.cache.bin
BuildViTrigram ==
  /\ \E corpus \in ViCorpora, max_pairs \in 1..MaxPairs, top_n \in 0..MaxTopN :
       \E o \in BuildOutcomes("vi", corpus, max_pairs, top_n) :
         /\ fs' = [ fs EXCEPT !.viTri = Some(o.data) ]
         /\ built' = [ built EXCEPT !.vi = BuiltRecord(o, top_n) ]
         /\ reply' = [ op |-> "build_trigram", lang |-> "vi", max_pairs |-> max_pairs,
                      top_n |-> top_n ]
  /\ UNCHANGED << edits, histVars >>

\* pairs looked up: those the builder wrote, and one that no corpus holds
MissPair == << 0, 0 >>
QueryPairs(lang) ==
  { MissPair } \cup (IF IsSome(built[lang]) THEN Unwrap(built[lang]).pairs ELSE {})

\* what lookup_trigram(&mmap, w1, w2, &vocab) gives on the cache of a language
TrigramReply(lang, pr) ==
  [ op |-> "lookup_trigram", lang |-> lang, w1 |-> pr[1], w2 |-> pr[2],
    res |-> lookup_trigram(Unwrap(TrigramOf(fs, lang)), U32(pr[1]), U32(pr[2]),
                           VocabOf(lang)) ]

\* suggest_hybrid's lookup_trigram on en.trigram.cache.bin
LookupEnTrigram ==
  /\ IsSome(fs.enTri)
  /\ \E pr \in QueryPairs("en") : reply' = TrigramReply("en", pr)
  /\ UNCHANGED << fs, built, edits, histVars >>

\* benchmark_engine's lookup_trigram on vi.trigram.cache.bin
LookupViTrigram ==
  /\ IsSome(fs.viTri)
  /\ \E pr \in QueryPairs("vi") : reply' = TrigramReply("vi", pr)
  /\ UNCHANGED << fs, built, edits, histVars >>

BuildInit == HistNew /\ NoArtifacts

BuildNext ==
  \/ BuildEnTrigram
  \/ BuildViTrigram
  \/ LookupEnTrigram
  \/ LookupViTrigram

SpecBuild == BuildInit /\ [][BuildNext]_vars

\* the words of the successors observed after the looked-up pair
ObservedWords(lang, pr) ==
  { VocabOf(lang)[s + 1] : s \in Unwrap(built[lang]).succ[pr] }

\* the last operation looked up a pair that the builder of lang wrote
LookedUpBuiltPair(lang) ==
  /\ reply.op = "lookup_trigram"
  /\ reply.lang = lang
  /\ IsSome(built[lang])
  /\ << reply.w1, reply.w2 >> \in Unwrap(built[lang]).pairs

RoundTrip(lang) ==
  LookedUpBuiltPair(lang) =>
    /\ ~reply.res.panic
    /\ IsSome(reply.res.ret)
    /\ Unwrap(reply.res.ret) # << >>
    /\ \A e \in Range(Unwrap(reply.res.ret)) :
         e[1] \in ObservedWords(lang, << reply.w1, reply.w2 >>)

\* C3: for every pair a trigram cache builder selected and wrote to the pair
\* table, lookup_trigram on the built file returns a non-empty list of
\* successors observed after the pair, for the English and for the
\* Vietnamese builder.
C3_BuiltPairRoundTrip == RoundTrip("en") /\ RoundTrip("vi")

(***************************************************************************)
(* The bigram file (build_bigram: reduce_shards from the per-prev lists    *)
(* on, and write_bigram_bin).                                              *)
(***************************************************************************)
WeightedEdges(sorted) ==
  LET max_count == IF sorted = << >> THEN 1 ELSE sorted[1][2]
  IN [ i \in 1..Len(sorted) |-> << sorted[i][1], quantize_weight(sorted[i][2], max_count) >> ]

\* for edges_for_prev in all_edges
RECURSIVE ReduceFrom(_, _, _, _, _)
ReduceFrom(all_edges, prev, top_n, index, edges) ==
  IF prev > Len(all_edges) THEN [ index |-> index, edges |-> edges ]
  ELSE LET offset == Len(edges) * 8
           sorted == Truncate(SortDesc(all_edges[prev]), top_n)
       IN IF all_edges[prev] = << >>
          THEN ReduceFrom(all_edges, prev + 1, top_n,
                          Append(index, [ offset |-> offset, len |-> 0 ]), edges)
          ELSE ReduceFrom(all_edges, prev + 1, top_n,
                          Append(index, [ offset |-> offset, len |-> Len(sorted) % 65536 ]),
                          edges \o WeightedEdges(sorted))

RECURSIVE BigramIndex(_, _)
BigramIndex(index, i) ==
  IF i > Len(index) THEN << >>
  ELSE U32ToLe(index[i].offset) \o U16ToLe(index[i].len) \o Zeros(2)
       \o BigramIndex(index, i + 1)

write_bigram_bin(vocab_size, top_n, index, edges) ==
  U32ToLe(BIGRAM_MAGIC) \o U32ToLe(VERSION) \o U32ToLe(vocab_size) \o U32ToLe(Len(edges))
  \o U32ToLe(top_n) \o Zeros(12)
  \o BigramIndex(index, 1) \o EdgeRecords(edges, 1)

\* the (next, count) lists of an English corpus, one per word id
EnAllEdges ==
  << << << 3, 9 >>, << 6, 8 >>, << 9, 7 >>, << 4, 6 >>, << 5, 5 >>, << 7, 4 >>, << 2, 3 >> >>,
     << >>,
     << << 0, 2 >> >>,
     << << 9, 1 >>, << 4, 2 >> >>,
     << << 7, 1 >> >>,
     << >>,
     << << 4, 1 >> >>,
     << << 0, 2 >> >>,
     << >>,
     << << 7, 1 >> >> >>
BIGRAM_TOP_N == 10

EnBigramFile ==
  LET r == ReduceFrom(EnAllEdges, 1, BIGRAM_TOP_N, << >>, << >>)
  IN write_bigram_bin(Len(EnVocab), BIGRAM_TOP_N, r.index, r.edges)

(***************************************************************************)
(* The engine on its artifacts: queries, and changes made to the files     *)
(* after they were written (a cut-off file, a changed byte).               *)
(***************************************************************************)
MaxEdits == 1

Sentences ==
  { << >>,
    << W_the >>,
    << W_the, << "d", "o", "g", "4" >> >>,
    << W_Hi, W_the >>,
    << << "z", "e", "d" >>, W_sit >>,
    << << "4", "2" >> >>,
    << W_in >> }

\* the artifacts as the builders left them: the bigram file, and the trigram
\* cache of EnCorpusA or none
EngineInit ==
  /\ HistNew
  /\ \/ /\ fs = [ enTri |-> None, viTri |-> None, enBi |-> Some(EnBigramFile) ]
        /\ built = [ en |-> None, vi |-> None, bi |-> None ]
     \/ \E o \in BuildOutcomes("en", EnCorpusA, MaxPairs, MaxTopN) :
          /\ fs = [ enTri |-> Some(o.data), viTri |-> None, enBi |-> Some(EnBigramFile) ]
          /\ built = [ en |-> BuiltRecord(o, MaxTopN), vi |-> None, bi |-> None ]
  /\ reply = [ op |-> "none" ]
  /\ edits = 0

EngineFiles == { "enTri", "enBi" }
TruncLens(data) == { 8, Len(data) - 3, Len(data) - 1 }
PokePositions == { 8, 11, 40, 44 }
PokeValues == { 0, 255 }

\* the file is cut off
TruncateFile ==
  /\ edits < MaxEdits
  /\ \E name \in EngineFiles :
       /\ IsSome(fs[name])
       /\ \E len \in TruncLens(Unwrap(fs[name])) :
            /\ len >= 1
            /\ len < Len(Unwrap(fs[name]))
            /\ fs' = [ fs EXCEPT ![name] = Some(SubSeq(Unwrap(fs[name]), 1, len)) ]
  /\ edits' = edits + 1
  /\ reply' = [ op |-> "edit" ]
  /\ UNCHANGED << built, histVars >>

\* one byte of the file is changed
PokeFile ==
  /\ edits < MaxEdits
  /\ \E name \in EngineFiles, pos \in PokePositions, val \in PokeValues :
       /\ IsSome(fs[name])
       /\ InFile(Unwrap(fs[name]), pos)
       /\ At(Unwrap(fs[name]), pos) # val
       /\ fs' = [ fs EXCEPT ![name] = Some([ Unwrap(fs[name]) EXCEPT ![pos + 1] = val ]) ]
  /\ edits' = edits + 1
  /\ reply' = [ op |-> "edit" ]
  /\ UNCHANGED << built, histVars >>

\* suggest_hybrid "<sentence>"
SuggestQuery ==
  /\ \E sentence \in Sentences :
       reply' = [ op |-> "suggest", sentence |-> sentence ] @@ Suggest(fs, sentence)
  /\ UNCHANGED << fs, built, edits, histVars >>

\* lookup_bigram(bigram_data, id, &vocab)
LookupEnBigram ==
  /\ \E w \in DOMAIN canonical_map :
       reply' = [ op |-> "lookup_bigram", w_id |-> canonical_map[w],
                  res |-> lookup_bigram(Unwrap(fs.enBi), U32(canonical_map[w]), EnVocab) ]
  /\ UNCHANGED << fs, built, edits, histVars >>

EngineNext ==
  \/ TruncateFile
  \/ PokeFile
  \/ SuggestQuery
  \/ LookupEnTrigram
  \/ LookupEnBigram

SpecEngine == EngineInit /\ [][EngineNext]_vars

\* C2: whatever the bytes of the trigram cache or of the bigram file,
\* lookup_trigram and lookup_bigram never read an index outside the data:
\* no call of them, direct or within a query, panics.
C2_LookupsNeverPanic ==
  /\ reply.op \in { "lookup_trigram", "lookup_bigram" } => ~reply.res.panic
  /\ reply.op = "suggest" => ~reply.panic

\* the steps of the last query
StepsOf(kind) == { i \in 1..Len(reply.steps) : reply.steps[i].ev = kind }
NonEmptyResult(res) == ~res.panic /\ IsSome(res.ret) /\ Unwrap(res.ret) # << >>

\* C4: within one query, with a trigram cache loaded, the trigram lookup is
\* the first step whenever the last two words both have an id; the bigram
\* lookup comes only after a trigram attempt that gave no non-empty list; a
\* source is set only for a non-empty list; gating is applied only after
\* the source is set, to the list of that source.
C4_SourceSelection ==
  reply.op = "suggest" =>
    /\ ( IsSome(fs.enTri) /\ LastTwoMap(MapSeq(reply.sentence, hybrid_normalize)) )
         => ( reply.steps # << >> /\ reply.steps[1].ev = "lookup_trigram" )
    /\ \A i \in StepsOf("lookup_bigram") : \A j \in StepsOf("lookup_trigram") :
         j < i /\ ~NonEmptyResult(reply.steps[j].res)
    /\ \A i \in StepsOf("source") : reply.steps[i].list # << >>
    /\ \A i \in StepsOf("apply_gating") :
         \E j \in StepsOf("source") : j < i /\ reply.steps[j].list = reply.steps[i].input
    /\ ( ~reply.panic /\ reply.source # "None" ) => StepsOf("source") # {}

MaxGateLen == 3

GateWords == { W_to, W_is, W_dog, W_hi }
GateWeights == { 3, 65535 }
GateEntries == { << w, s >> : w \in GateWords, s \in GateWeights }
GateLists == UNION { [ 1..n -> GateEntries ] : n \in 0..MaxGateLen }

GatingInit ==
  /\ HistNew
  /\ fs = [ enTri |-> None, viTri |-> None, enBi |-> None ]
  /\ built = [ en |-> None, vi |-> None, bi |-> None ]
  /\ edits = 0
  /\ \E list \in GateLists : reply = [ op |-> "list", list |-> list ]

\* apply_gating(&mut suggestions)
ApplyGating ==
  /\ reply.op = "list"
  /\ reply' = [ op |-> "apply_gating", input |-> reply.list,
                output |-> apply_gating(reply.list), again |-> FALSE ]
  /\ UNCHANGED << fs, built, edits, histVars >>

\* apply_gating(&mut suggestions) once more, on the list it left
ApplyGatingAgain ==
  /\ reply.op = "apply_gating"
  /\ ~reply.again
  /\ reply' = [ op |-> "apply_gating", input |-> reply.output,
                output |-> apply_gating(reply.output), again |-> TRUE,
                first |-> reply.input ]
  /\ UNCHANGED << fs, built, edits, histVars >>

GatingNext == ApplyGating \/ ApplyGatingAgain

SpecGating == GatingInit /\ [][GatingNext]_vars

Occurrences(list, e) == Cardinality({ i \in 1..Len(list) : list[i] = e })
IsOther(e) == ~IsBoost(e)

\* C5: apply_gating returns a permutation of its input (weights included)
\* in which every function word comes before every other entry, each of
\* the two groups keeps its input order, and a second application changes
\* nothing.
C5_StablePartition ==
  reply.op = "apply_gating" =>
    /\ Len(reply.output) = Len(reply.input)
    /\ \A e \in Range(reply.input) \cup Range(reply.output) :
         Occurrences(reply.output, e) = Occurrences(reply.input, e)
    /\ \A i, j \in 1..Len(reply.output) :
         ( i < j /\ IsBoost(reply.output[j]) ) => IsBoost(reply.output[i])
    /\ SelectSeq(reply.output, IsBoost) = SelectSeq(reply.input, IsBoost)
    /\ SelectSeq(reply.output, IsOther) = SelectSeq(reply.input, IsOther)
    /\ reply.again => reply.output = reply.input

\* a list of two function words behind another word was reordered, and
\* gated again
C5_Witness ==
  /\ reply.op = "apply_gating"
  /\ reply.again
  /\ reply.first # reply.input
  /\ Len(SelectSeq(reply.first, IsBoost)) >= 2
  /\ IsOther(reply.first[1])

(***************************************************************************)
(* predict on a tracker that holds more successors than top_n: a new       *)
(* history learns MaxSuccessors texts, the k-th of them "is w is w ..."    *)
(* with the k-th successor word w (once for the first two words, k - 1     *)
(* times for the others), and then short texts; the clock advances, the    *)
(* history is saved and loaded.                                            *)
(***************************************************************************)
MaxSuccessors == 21
MaxPredictLearns == 1

LetterSeq == << "a", "d", "e", "f", "g", "h", "i", "n", "o", "r", "s", "t", "x", "z" >>
\* the k-th successor word: a letter, or "a" and a letter
SuccessorWord(k) ==
  IF k <= Len(LetterSeq) THEN << LetterSeq[k] >> ELSE << "a", LetterSeq[k - Len(LetterSeq)] >>
SuccessorCount(k) == IF k <= 2 THEN 1 ELSE k - 1

RECURSIVE Repeat(_, _)
Repeat(pieces, n) == IF n = 0 THEN << >> ELSE pieces \o Repeat(pieces, n - 1)
SuccessorText(k) == Repeat(<< << "i", "s" >>, SuccessorWord(k) >>, SuccessorCount(k))

\* the first learns of a new history, one successor word after the other
LearnSuccessor ==
  /\ learns < MaxSuccessors
  /\ lastOp \in { "new", "learn" }
  /\ LearnCall(SuccessorText(learns + 1))

\* a learn of a short text, after those
LearnMore ==
  /\ learns >= MaxSuccessors
  /\ learns < MaxSuccessors + MaxPredictLearns
  /\ \E text \in Texts : LearnCall(text)

PredictNext ==
  \/ LearnSuccessor
  \/ LearnMore
  \/ Tick
  \/ Save
  \/ Load

SpecPredict == HistInit /\ [][PredictNext]_vars

\* an id that no learn has seen
UnseenId == U32(7)

\* the list is what get_top is to return on tracker tr at second t
PredictedFrom(out, tr, t) ==
  /\ Len(out) <= tr.top_n
  /\ \A i, j \in 1..Len(out) : i < j => out[i][2] >= out[j][2]
  /\ \A i \in 1..Len(out) : out[i][1] \in DOMAIN tr.counts
  /\ \A k \in DOMAIN tr.counts :
       k \notin { out[i][1] : i \in 1..Len(out) } =>
         \A i \in 1..Len(out) : EdgeStatScore(tr.counts[k], t) <= out[i][2]

\* C11: predict(prev_id) returns at most top_n pairs, in non-increasing
\* order of score, each id a successor tracked for prev_id, and no tracked
\* successor that is left out scores more than a returned one; an id
\* without a tracker gives the empty list; and a tracker created by learn
\* has top_n = 20.
C11_PredictTopN ==
  /\ [] ( \A p \in KnownIds(history) \cup { UnseenId } :
            \A out \in PredictOutcomes(history, p, now) :
              IF p \in DOMAIN history.bigrams
              THEN PredictedFrom(out, history.bigrams[p], now)
              ELSE out = << >> )
  /\ [][ lastOp' = "learn" =>
           \A p \in DOMAIN history'.bigrams \ DOMAIN history.bigrams :
             history'.bigrams[p].top_n = LEARN_TOP_N ]_vars

\* the tracker of "is" holds more than 20 successors, two of them with the
\* lowest score, after a clock advance and a later learn: predict can return
\* two lists of 20, each leaving one of the two out
C11_Witness ==
  /\ IdIs \in DOMAIN history.bigrams
  /\ history.bigrams[IdIs].top_n = LEARN_TOP_N
  /\ Cardinality(DOMAIN history.bigrams[IdIs].counts) > LEARN_TOP_N
  /\ now > StartSec
  /\ lastOp = "learn"
  /\ Cardinality(PredictOutcomes(history, IdIs, now)) >= 2
  /\ \A out \in PredictOutcomes(history, IdIs, now) : Len(out) = LEARN_TOP_N

(***************************************************************************)
(* user_history.rs: lookup_prefix.                                         *)
(* WordScoreTable[k + 1][f + 1] is                                         *)
(*   ((1.0 + f as f64 * 2^(-age / HL_LEXICON_SEC)).ln() * 10000.0)         *)
(* cut to an integer, for an age of k half lexicon half-lives (k in 0..3)   *)
(* and a freq f in 0..12.                                                  *)
(***************************************************************************)
HL_LEXICON_SEC == 1209600
BONUS_ACCEPT == 3000

WordScoreTable ==
  <<
     << 0, 6931, 10986, 13862, 16094, 17917, 19459, 20794, 21972, 23025, 23978, 24849, 25649 >>,
     << 0, 5347, 8813, 11382, 13424, 15119, 16568, 17833, 18956, 19965, 20882, 21722, 22497 >>,
     << 0, 4054, 6931, 9162, 10986, 12527, 13862, 15040, 16094, 17047, 17917, 18718, 19459 >>,
     << 0, 3027, 5347, 7230, 8813, 10180, 11382, 12455, 13424, 14307, 15119, 15870, 16568 >>
  >>

\* WordStat::score, for ages that are multiples of half a lexicon half-life
\* (the step of the clock)
WordStatScore(stat, t) ==
  LET age == SatSub(t, stat.last_used)
      k == (2 * age) \div HL_LEXICON_SEC
  IN Min2(WordScoreTable[k + 1][stat.freq + 1] + stat.accept * BONUS_ACCEPT, MAX_SCORE)

\* a faulty starts_with: only the whole word matches
starts_with_Whole(word, norm_prefix) == word = norm_prefix

\* word.starts_with(&norm_prefix)
starts_with(word, norm_prefix) ==
  Len(norm_prefix) <= Len(word) /\ SubSeq(word, 1, Len(norm_prefix)) = norm_prefix

\* the ids of the lexicon entries that pass the filter
PrefixMatches(h, norm_prefix) ==
  { id \in DOMAIN h.lexicon.id_to_meta : starts_with(h.lexicon.id_to_meta[id].word, norm_prefix) }

\* matches.sort_unstable_by(|a, b| b.1.cmp(&a.1)): the orders it can give
\* the ids, ids of equal score in any order
RECURSIVE WordOrders(_, _, _)
WordOrders(meta, ids, t) ==
  IF ids = {} THEN { << >> }
  ELSE LET best == { k \in ids : \A j \in ids :
                       WordStatScore(meta[k].stat, t) >= WordStatScore(meta[j].stat, t) }
       IN UNION { { << k >> \o p : p \in WordOrders(meta, ids \ {k}, t) } : k \in best }

\* UserHistory::lookup_prefix: the lists of (id, score) it can return
lookup_prefix(h, prefix, limit, t) ==
  LET norm_prefix == normalize_token(prefix)
  IN IF norm_prefix = << >> THEN { << >> }
     ELSE { [ i \in 1..Min2(limit, Len(p)) |->
                << p[i], WordStatScore(h.lexicon.id_to_meta[p[i]].stat, t) >> ] :
              p \in WordOrders(h.lexicon.id_to_meta, PrefixMatches(h, norm_prefix), t) }

(***************************************************************************)
(* Prefix lookups on histories that learned words with common prefixes.    *)
(***************************************************************************)
MaxPrefixLearns == 2
MaxLimit == 2

TextDontDog == << << "H", "i" >>, << "d", "o", "n", "RSQUO", "t" >>, << "d", "o", "g" >> >>
TextDogDog == << << "d", "o", "g" >>, << "i", "s" >>, << "d", "o", "g" >> >>
TextEdenGo ==
  << << "e", "COMB_ACUTE", "d", "e", "n" >>, << "4", "2" >>, << "G", "o" >>, << "d", "o" >> >>
PrefixTexts == { TextDontDog, TextDogDog, TextEdenGo }

\* prefixes as typed
Prefixes ==
  { << >>, << "4", "2" >>, << "d" >>, << "d", "o" >>, << "d", "o", "n", "LSQUO" >>,
    << "d", "o", "n", "'", "t" >>, << "d", "o", "g", "s" >>, << "G" >>, << "e" >>,
    << "e", "COMB_ACUTE" >>, << "e_acute", "d" >>, << "h", "i" >> }

LearnPrefixText ==
  /\ learns < MaxPrefixLearns
  /\ \E text \in PrefixTexts : LearnCall(text)

PrefixNext ==
  \/ LearnPrefixText
  \/ Tick
  \/ Save
  \/ Load

SpecPrefix == HistInit /\ [][PrefixNext]_vars

\* p is the sequence of the first k characters of w, for some k >= 1
IsPrefixOf(p, w) == \E k \in 1..Len(w) : p = SubSeq(w, 1, k)

\* the user words other than id that have prefix p
OtherWordsWith(h, p, id) ==
  { o \in DOMAIN h.lexicon.id_to_meta \ { id } : IsPrefixOf(p, h.lexicon.id_to_meta[o].word) }

\* the ids a returned list holds
IdsOf(out) == { out[i][1] : i \in 1..Len(out) }

\* C12: for every word w that learn added to the user lexicon, every prefix
\* p whose canonical form (normalize_token, which folds U+2019 and U+2018
\* to the ASCII apostrophe) is a non-empty prefix of w, and every limit
\* greater than the number of other user words that match,
\* lookup_prefix(p, limit) holds the id of w; a prefix whose canonical form
\* is empty gives the empty list.
C12_PrefixFindsWord ==
  \A p \in Prefixes : \A limit \in 0..MaxLimit :
    \A out \in lookup_prefix(history, p, limit, now) :
      /\ normalize_token(p) = << >> => out = << >>
      /\ \A i \in 1..Len(ghost.minted) :
           LET w == ghost.minted[i]
               others == OtherWordsWith(history, normalize_token(p), w.id)
           IN ( /\ IsPrefixOf(normalize_token(p), normalize_token(w.word))
                /\ Cardinality(others) < limit )
              => w.id \in IdsOf(out)

\* "don't" was learned with U+2019 and is found by the prefix typed with
\* U+2018, next to "dog" under the prefix "do" with limit 2, and the list
\* for "do" with limit 1 holds "dog" only
C12_Witness ==
  \E i, j \in 1..Len(ghost.minted) :
    /\ ghost.minted[i].word = << "d", "o", "n", "'", "t" >>
    /\ ghost.minted[j].word = << "d", "o", "g" >>
    /\ \A out \in lookup_prefix(history, << "d", "o", "n", "LSQUO" >>, 1, now) :
         IdsOf(out) = { ghost.minted[i].id }
    /\ \A out \in lookup_prefix(history, << "d", "o" >>, 2, now) :
         IdsOf(out) = { ghost.minted[i].id, ghost.minted[j].id }
    /\ \A out \in lookup_prefix(history, << "d", "o" >>, 1, now) :
         IdsOf(out) = { ghost.minted[j].id }
    /\ lastOp = "load"

(***************************************************************************)
(* The bigram builders (build_bigram: sharded; build_bigram_stream:        *)
(* streaming).  Both read en.vocab.txt and en.lex.fst, every vocabulary    *)
(* word being a key of the FST with its line as word_id.                   *)
(***************************************************************************)
\* build_canonical_map of the bigram builders: lower -> (best_id, best_prob)
RECURSIVE BigramCanonicalFold(_, _, _, _)
BigramCanonicalFold(vocab, prob, line, canonical) ==
  IF line >= Len(vocab) THEN canonical
  ELSE LET lower == to_lowercase(vocab[line + 1])
           seen == [ id |-> line, prob |-> prob[line + 1] ]
           entry == IF lower \in DOMAIN canonical /\ ~(seen.prob > canonical[lower].prob)
                    THEN canonical[lower] ELSE seen
       IN BigramCanonicalFold(vocab, prob, line + 1, Put(canonical, lower, entry))

bigram_build_canonical_map(vocab, prob) ==
  LET canonical == BigramCanonicalFold(vocab, prob, 0, EmptyMap)
  IN [ k \in DOMAIN canonical |-> canonical[k].id ]

bigram_canonical_map == bigram_build_canonical_map(EnVocab, EnProb)

\* a faulty pass over a line: a word that is empty after normalization or has
\* no id is skipped and prev_id is kept
RECURSIVE LineBigrams_KeepPrev(_, _, _)
LineBigrams_KeepPrev(line, i, prev_id) ==
  IF i > Len(line) THEN << >>
  ELSE LET normalized == build_normalize_token(line[i])
       IN IF normalized = << >> \/ normalized \notin DOMAIN bigram_canonical_map
          THEN LineBigrams_KeepPrev(line, i + 1, prev_id)
          ELSE LET word_id == bigram_canonical_map[normalized]
               IN (IF IsSome(prev_id) THEN << << Unwrap(prev_id), word_id >> >> ELSE << >>)
                  \o LineBigrams_KeepPrev(line, i + 1, Some(word_id))

\* the (prev, next) pairs the words of one line give, in order
RECURSIVE LineBigrams(_, _, _)
LineBigrams(line, i, prev_id) ==
  IF i > Len(line) THEN << >>
  ELSE LET normalized == build_normalize_token(line[i])
       IN IF normalized = << >> \/ normalized \notin DOMAIN bigram_canonical_map
          THEN LineBigrams(line, i + 1, None)
          ELSE LET word_id == bigram_canonical_map[normalized]
               IN (IF IsSome(prev_id) THEN << << Unwrap(prev_id), word_id >> >> ELSE << >>)
                  \o LineBigrams(line, i + 1, Some(word_id))

\* the pairs of the corpus, line after line (prev_id = None at each line end)
RECURSIVE CorpusBigrams(_, _)
CorpusBigrams(corpus, j) ==
  IF j > Len(corpus) THEN << >>
  ELSE LineBigrams(corpus[j], 1, None) \o CorpusBigrams(corpus, j + 1)

\* a faulty shard index: the pairs are dealt out in turn
ShardIndex_InTurn(pair, i, num_shards) == i % num_shards

\* shard_idx of the i-th emitted pair: (prev as usize) % num_shards
ShardIndex(pair, i, num_shards) == pair[1] % num_shards

\* shard_bigrams: the content of shard file s
ShardFile(emitted, s, num_shards) ==
  LET at == { i \in 1..Len(emitted) : ShardIndex(emitted[i], i, num_shards) = s }
  IN [ k \in 1..Cardinality(at) |->
         emitted[CHOOSE i \in at : Cardinality({ j \in at : j < i }) = k - 1] ]

\* reduce_shards, shard_counts of one shard
RECURSIVE ShardCounts(_, _, _)
ShardCounts(shard, i, counts) ==
  IF i > Len(shard) THEN counts ELSE ShardCounts(shard, i + 1, Bump(counts, shard[i]))

\* the (next, count) items one shard pushes to all_edges[prev], in each order
\* the iteration of shard_counts can give them
ShardPushes(shard, prev) ==
  LET counts == ShardCounts(shard, 1, EmptyMap)
  IN Orderings({ << pr[2], counts[pr] >> : pr \in { q \in DOMAIN counts : q[1] = prev } })

\* all_edges[prev] after the shards 0 .. num_shards - 1 were merged in turn
RECURSIVE PrevLists(_, _, _, _)
PrevLists(emitted, prev, s, num_shards) ==
  IF s >= num_shards THEN { << >> }
  ELSE { a \o b : a \in ShardPushes(ShardFile(emitted, s, num_shards), prev),
                  b \in PrevLists(emitted, prev, s + 1, num_shards) }

\* reduce_shards up to the merge: the values all_edges can have from entry
\* prev on (a pair with prev >= vocab_size is dropped)
RECURSIVE AllEdgesFrom(_, _, _, _)
AllEdgesFrom(emitted, prev, num_shards, vocab_size) ==
  IF prev >= vocab_size THEN { << >> }
  ELSE { << a >> \o rest : a \in PrevLists(emitted, prev, 0, num_shards),
                           rest \in AllEdgesFrom(emitted, prev + 1, num_shards, vocab_size) }

\* build_bigram main: the (index, edges, file) it can write
ShardedOutcomes(corpus, num_shards, top_n) ==
  { LET r == ReduceFrom(all_edges, 1, top_n, << >>, << >>)
    IN [ index |-> r.index, edges |-> r.edges,
         emitted |-> CorpusBigrams(corpus, 1),
         data |-> write_bigram_bin(Len(EnVocab), top_n, r.index, r.edges) ] :
      all_edges \in AllEdgesFrom(CorpusBigrams(corpus, 1), 0, num_shards, Len(EnVocab)) }

(***************************************************************************)
(* build_bigram_stream                                                     *)
(***************************************************************************)
\* TopNTracker::new of the streaming builder
StreamTrackerNew(top_n) ==
  [ counts |-> EmptyMap, top_n |-> top_n, prune_threshold |-> top_n * 100 ]

\* TopNTracker::prune: the counts it can leave
StreamPruneOutcomes(tr) ==
  IF Cardinality(DOMAIN tr.counts) <= tr.top_n * 2 THEN { tr }
  ELSE { [ tr EXCEPT !.counts =
             [ k \in { e[1] : e \in Range(Truncate(SortDesc(p), tr.top_n * 2)) } |-> tr.counts[k] ] ] :
           p \in Orderings(Entries(tr.counts)) }

\* TopNTracker::add
StreamAddOutcomes(tr, next_id) ==
  LET upd == [ tr EXCEPT !.counts = Bump(tr.counts, next_id) ]
  IN IF Cardinality(DOMAIN upd.counts) > upd.prune_threshold
     THEN StreamPruneOutcomes(upd) ELSE { upd }

\* TopNTracker::finalize: the lists of (next_id, count) it can return
FinalizeOutcomes(tr) ==
  { Truncate(SortDesc(p), tr.top_n) : p \in Orderings(Entries(tr.counts)) }

\* the pass over the corpus: the trackers it can leave
RECURSIVE StreamTrackers(_, _, _, _)
StreamTrackers(emitted, i, top_n, trackers) ==
  IF i > Len(emitted) THEN { trackers }
  ELSE LET prev == emitted[i][1]
           tr == IF prev \in DOMAIN trackers THEN trackers[prev] ELSE StreamTrackerNew(top_n)
       IN UNION { StreamTrackers(emitted, i + 1, top_n, Put(trackers, prev, tr2)) :
                    tr2 \in StreamAddOutcomes(tr, emitted[i][2]) }

\* for (prev_id, tracker) in trackers, in the order order of the prev ids
RECURSIVE StreamFinalize(_, _, _, _, _)
StreamFinalize(trackers, order, i, index, edges) ==
  IF i > Len(order) THEN { [ index |-> index, edges |-> edges ] }
  ELSE UNION {
         IF top_items = << >>
         THEN StreamFinalize(trackers, order, i + 1, index, edges)
         ELSE LET offset == Len(edges)
                  edges2 == edges \o WeightedEdges(top_items)
                  len == (Len(edges2) - offset) % 65536
              IN StreamFinalize(trackers, order, i + 1,
                   IF order[i] < Len(index)
                   THEN [ index EXCEPT ![order[i] + 1] = [ offset |-> offset * 8, len |-> len ] ]
                   ELSE index,
                   edges2) :
         top_items \in FinalizeOutcomes(trackers[order[i]]) }

\* the header, index and edges as build_bigram_stream writes them
StreamFile(vocab_size, top_n, index, edges) ==
  U32ToLe(BIGRAM_MAGIC) \o U32ToLe(VERSION) \o U32ToLe(vocab_size) \o U32ToLe(Len(edges))
  \o U32ToLe(top_n) \o Zeros(12)
  \o BigramIndex(index, 1) \o EdgeRecords(edges, 1)

\* build_bigram_stream main: the (index, edges, file) it can write
StreamOutcomes(corpus, top_n) ==
  UNION { UNION { { [ index |-> r.index, edges |-> r.edges,
                      emitted |-> CorpusBigrams(corpus, 1),
                      data |-> StreamFile(Len(EnVocab), top_n, r.index, r.edges) ] :
                    r \in StreamFinalize(trackers, order, 1,
                                         [ k \in 1..Len(EnVocab) |-> [ offset |-> 0, len |-> 0 ] ],
                                         << >>) } :
                  order \in Orderings(DOMAIN trackers) } :
          trackers \in StreamTrackers(CorpusBigrams(corpus, 1), 1, top_n, EmptyMap) }

(***************************************************************************)
(* Building en.bigram.bin with either builder and looking ids up in it.    *)
(***************************************************************************)
MaxShards == 2
MaxBigramTopN == 2

BiCorpusC ==
  << << W_the, W_dog, W_the, W_dog, W_the, W_dog, W_the, W_is, W_the, W_is, W_the, W_on >>,
     << W_Hi, W_hi, << "4", "2" >>, W_hi, W_to >> >>
BiCorpora == { EnCorpusA, EnCorpusB, BiCorpusC }

\* what a run of a bigram builder held in memory when it wrote the file
BigramRecord(builder, o, top_n) ==
  Some([ builder |-> builder, index |-> o.index, edges |-> o.edges, top_n |-> top_n,
         emitted |-> o.emitted ])

\* one run of build_bigram --top top_n --shards num_shards, where no
\* en.bigram.bin is yet
BuildBigramSharded ==
  /\ fs.enBi = None
  /\ \E corpus \in BiCorpora, num_shards \in 1..MaxShards, top_n \in 0..MaxBigramTopN :
       \E o \in ShardedOutcomes(corpus, num_shards, top_n) :
         /\ fs' = [ fs EXCEPT !.enBi = Some(o.data) ]
         /\ built' = [ built EXCEPT !.bi = BigramRecord("sharded", o, top_n) ]
         /\ reply' = [ op |-> "build_bigram", corpus |-> corpus, shards |-> num_shards,
                      top_n |-> top_n ]
  /\ UNCHANGED << edits, histVars >>

\* one run of build_bigram_stream --top top_n, where no en.bigram.bin is yet
BuildBigramStream ==
  /\ fs.enBi = None
  /\ \E corpus \in BiCorpora, top_n \in 0..MaxBigramTopN :
       \E o \in StreamOutcomes(corpus, top_n) :
         /\ fs' = [ fs EXCEPT !.enBi = Some(o.data) ]
         /\ built' = [ built EXCEPT !.bi = BigramRecord("stream", o, top_n) ]
         /\ reply' = [ op |-> "build_bigram_stream", corpus |-> corpus, top_n |-> top_n ]
  /\ UNCHANGED << edits, histVars >>

\* the bytes lookup_bigram reads: data[i] for each i of the set
lookup_bigram_reads(data, w_id) ==
  LET vocab_size == UsizeFromLe(data, 8)
      index_offset == HEADER_SIZE + w_id[2] * 8
      edges_base == HEADER_SIZE + vocab_size * 8
  IN 8..11
     \cup
     IF index_offset + 8 > HEADER_SIZE + vocab_size * 8 \/ index_offset + 6 > Len(data)
     THEN {}
     ELSE index_offset..(index_offset + 5)
          \cup
          { edges_base + UsizeFromLe(data, index_offset) + i * 8 + b :
              i \in { k \in 0..(U16FromLe(data, index_offset + 4) - 1) :
                        edges_base + UsizeFromLe(data, index_offset) + k * 8 + 6 <= Len(data) },
              b \in 0..5 }

\* ids looked up: those of the vocabulary, and ids at and past its end
LookupIds == 0..(Len(EnVocab) + 1) \cup { 60000 }
\* the vocabulary the caller passes: en.vocab.txt, or its first lines only
CallerVocabs == { EnVocab, SubSeq(EnVocab, 1, 4) }

\* lookup_bigram(data, w_id, vocab)
LookupBigramId ==
  /\ IsSome(fs.enBi)
  /\ \E w_id \in LookupIds, vocab \in CallerVocabs :
       reply' = [ op |-> "lookup_bigram_id", w_id |-> w_id, vocab |-> vocab,
                  res |-> lookup_bigram(Unwrap(fs.enBi), U32(w_id), vocab),
                  reads |-> lookup_bigram_reads(Unwrap(fs.enBi), U32(w_id)) ]
  /\ UNCHANGED << fs, built, edits, histVars >>

BigramNext ==
  \/ BuildBigramSharded
  \/ BuildBigramStream
  \/ LookupBigramId

SpecBigram == BuildInit /\ [][BigramNext]_vars

(***************************************************************************)
(* Properties of the bigram file and of lookups in it.                     *)
(***************************************************************************)
\* the edges the builder stored for id, in stored order
StoredEdges(bi, id) ==
  LET entry == bi.index[id + 1]
  IN SubSeq(bi.edges, entry.offset \div 8 + 1, entry.offset \div 8 + entry.len)

\* the stored edges whose next_id is a line of the vocabulary, as (word, weight)
ResolvedEdges(edges, vocab) ==
  LET kept == SelectSeq(edges, LAMBDA x : x[1] < Len(vocab))
  IN [ i \in 1..Len(kept) |-> << vocab[kept[i][1] + 1], kept[i][2] >> ]

\* the list a lookup returned, empty for None
ResultList(res) == IF res.ret = None THEN << >> ELSE Unwrap(res.ret)

\* C13: in a bigram file as a builder wrote it, lookup_bigram(id) with
\* id >= vocab_size returns an empty result and reads no byte of the index
\* or of the edges region; with id < vocab_size it returns, in stored order,
\* exactly the edges of index[id] whose next_id the vocabulary resolves, and
\* an empty result when len is 0.
C13_BigramLookup ==
  reply.op = "lookup_bigram_id" =>
    /\ ~reply.res.panic
    /\ IF reply.w_id >= Len(Unwrap(built.bi).index)
       THEN /\ ResultList(reply.res) = << >>
            /\ \A i \in reply.reads : i < HEADER_SIZE
       ELSE /\ ResultList(reply.res)
                 = ResolvedEdges(StoredEdges(Unwrap(built.bi), reply.w_id), reply.vocab)
            /\ Unwrap(built.bi).index[reply.w_id + 1].len = 0 => ResultList(reply.res) = << >>

\* a lookup in the file of the streaming builder returned two edges and left
\* out a stored edge that the caller's vocabulary does not resolve
C13_Witness ==
  /\ reply.op = "lookup_bigram_id"
  /\ reply.w_id < Len(Unwrap(built.bi).index)
  /\ Unwrap(built.bi).builder = "stream"
  /\ Len(ResultList(reply.res)) >= 1
  /\ Len(ResultList(reply.res)) < Len(StoredEdges(Unwrap(built.bi), reply.w_id))

\* the fields of a bigram file
BigramVocabSize(data) == UsizeFromLe(data, 8)
BigramEdgesCount(data) == UsizeFromLe(data, 12)
BigramEntryOffset(data, id) == UsizeFromLe(data, HEADER_SIZE + 8 * id)
BigramEntryLen(data, id) == U16FromLe(data, HEADER_SIZE + 8 * id + 4)

\* C14: every bigram file written by the sharded or by the streaming
\* builder has magic 0x4247524D and version 1, a length of exactly
\* 32 + 8 * vocab_size + 8 * edges_count bytes, and for every index entry
\* with len > 0 a byte range offset .. offset + 8 * len inside the edges
\* region.
C14_BigramLayout ==
  IsSome(fs.enBi) =>
    LET data == Unwrap(fs.enBi)
    IN /\ Len(data) >= HEADER_SIZE
       /\ U32FromLe(data, 0) = U32(BIGRAM_MAGIC)
       /\ U32FromLe(data, 4) = U32(VERSION)
       /\ Len(data) = HEADER_SIZE + 8 * BigramVocabSize(data) + 8 * BigramEdgesCount(data)
       /\ \A id \in 0..(BigramVocabSize(data) - 1) :
            BigramEntryLen(data, id) > 0 =>
              BigramEntryOffset(data, id) + 8 * BigramEntryLen(data, id)
                <= 8 * BigramEdgesCount(data)

\* the streaming builder wrote a file in which an entry with edges starts
\* past the beginning of the edges region
C14_Witness ==
  /\ IsSome(fs.enBi)
  /\ reply.op = "build_bigram_stream"
  /\ BigramEdgesCount(Unwrap(fs.enBi)) >= 3
  /\ \E id \in 0..(BigramVocabSize(Unwrap(fs.enBi)) - 1) :
       /\ BigramEntryLen(Unwrap(fs.enBi), id) = MaxBigramTopN
       /\ BigramEntryOffset(Unwrap(fs.enBi), id) > 0

\* the next_id fields of the edges of entry id, in stored order
BigramEntryNextIds(data, id) ==
  [ k \in 1..BigramEntryLen(data, id) |->
      U32FromLe(data, HEADER_SIZE + 8 * BigramVocabSize(data)
                      + BigramEntryOffset(data, id) + 8 * (k - 1)) ]

\* C16: in every index entry of a bigram file written by the sharded
\* builder the next_id values are pairwise distinct, for every corpus and
\* every number of shards.
C16_DistinctNextIds ==
  ( IsSome(fs.enBi) /\ Unwrap(built.bi).builder = "sharded" ) =>
    \A id \in 0..(BigramVocabSize(Unwrap(fs.enBi)) - 1) :
      LET ids == BigramEntryNextIds(Unwrap(fs.enBi), id)
      IN \A i, j \in 1..Len(ids) : i # j => ids[i] # ids[j]

\* the sharded builder ran with more than one shard on a corpus that holds
\* a pair more than once, and wrote an entry of two edges of different weight
C16_Witness ==
  /\ IsSome(fs.enBi)
  /\ reply.op = "build_bigram"
  /\ reply.shards = MaxShards
  /\ \E id \in 0..(BigramVocabSize(Unwrap(fs.enBi)) - 1) :
       /\ BigramEntryLen(Unwrap(fs.enBi), id) = 2
       /\ StoredEdges(Unwrap(built.bi), id)[1][2] > StoredEdges(Unwrap(built.bi), id)[2][2]

(***************************************************************************)
(* The weights stored by the bigram and trigram cache builders.            *)
(***************************************************************************)
\* the builders at work in a directory that holds the output of the bigram
\* builders or that of the trigram builders
BuildEnTrigramFirst == fs.enBi = None /\ BuildEnTrigram
BuildViTrigramFirst == fs.enBi = None /\ BuildViTrigram
BuildBigramShardedFirst == fs.enTri = None /\ fs.viTri = None /\ BuildBigramSharded
BuildBigramStreamFirst == fs.enTri = None /\ fs.viTri = None /\ BuildBigramStream

WeightsNext ==
  \/ BuildBigramShardedFirst
  \/ BuildBigramStreamFirst
  \/ BuildEnTrigramFirst
  \/ BuildViTrigramFirst

SpecWeights == BuildInit /\ [][WeightsNext]_vars

\* the weight fields of the edges of entry id of a bigram file, in stored order
BigramEntryWeights(data, id) ==
  [ k \in 1..BigramEntryLen(data, id) |->
      U16FromLe(data, HEADER_SIZE + 8 * BigramVocabSize(data)
                      + BigramEntryOffset(data, id) + 8 * (k - 1) + 4) ]

\* the fields of a trigram cache file; the English builder stores the offset
\* of an entry in bytes, the Vietnamese one in edges
TrigramNumPairs(data) == UsizeFromLe(data, 8)
TrigramEntryLen(data, i) == U16FromLe(data, HEADER_SIZE + 16 * i + 12)
TrigramEntryStart(lang, data, i) ==
  HEADER_SIZE + 16 * TrigramNumPairs(data)
  + UsizeFromLe(data, HEADER_SIZE + 16 * i + 8) * (IF lang = "en" THEN 1 ELSE 8)
TrigramEntryWeights(lang, data, i) ==
  [ k \in 1..TrigramEntryLen(data, i) |->
      U16FromLe(data, TrigramEntryStart(lang, data, i) + 8 * (k - 1) + 4) ]

NonIncreasing(ws) == \A k \in 1..(Len(ws) - 1) : ws[k] >= ws[k + 1]

TrigramWeightsSorted(lang) ==
  IsSome(TrigramOf(fs, lang)) =>
    LET data == Unwrap(TrigramOf(fs, lang))
    IN \A i \in 0..(TrigramNumPairs(data) - 1) :
         /\ TrigramEntryStart(lang, data, i) + 8 * TrigramEntryLen(data, i) <= Len(data)
         /\ NonIncreasing(TrigramEntryWeights(lang, data, i))

\* C15: in every entry of a built bigram file and of a built trigram cache
\* file the weights of the edges are non-increasing in stored order.
C15_WeightsNonIncreasing ==
  /\ IsSome(fs.enBi) =>
       \A id \in 0..(BigramVocabSize(Unwrap(fs.enBi)) - 1) :
         NonIncreasing(BigramEntryWeights(Unwrap(fs.enBi), id))
  /\ TrigramWeightsSorted("en")
  /\ TrigramWeightsSorted("vi")

\* an English trigram cache holds an entry of two edges of which the first
\* weighs more, and a Vietnamese cache holds an entry of two edges
C15_Witness ==
  /\ IsSome(fs.enTri) /\ IsSome(fs.viTri)
  /\ \E i \in 0..(TrigramNumPairs(Unwrap(fs.enTri)) - 1) :
       LET ws == TrigramEntryWeights("en", Unwrap(fs.enTri), i)
       IN Len(ws) = 2 /\ ws[1] > ws[2]
  /\ \E i \in 0..(TrigramNumPairs(Unwrap(fs.viTri)) - 1) :
       TrigramEntryLen(Unwrap(fs.viTri), i) = 2

\* the fields of entry i of the pair table of a trigram cache file
TrigramEntryW1(data, i) == U32FromLe(data, HEADER_SIZE + 16 * i)
TrigramEntryW2(data, i) == U32FromLe(data, HEADER_SIZE + 16 * i + 4)
TrigramEntryOffset(data, i) == UsizeFromLe(data, HEADER_SIZE + 16 * i + 8)

PairTableSorted(data) ==
  /\ Len(data) >= HEADER_SIZE + 16 * TrigramNumPairs(data)
  /\ \A i \in 0..(TrigramNumPairs(data) - 2) :
       /\ \/ U32Less(TrigramEntryW1(data, i), TrigramEntryW1(data, i + 1))
          \/ /\ TrigramEntryW1(data, i) = TrigramEntryW1(data, i + 1)
             /\ U32Less(TrigramEntryW2(data, i), TrigramEntryW2(data, i + 1))
       /\ TrigramEntryOffset(data, i) <= TrigramEntryOffset(data, i + 1)

\* C17: in every trigram cache file written by a builder the pair table is
\* strictly increasing on (w1, w2) in lexicographic order, so that no pair
\* appears twice, and the offset fields are non-decreasing along the table.
C17_PairTableSorted ==
  /\ IsSome(fs.enTri) => PairTableSorted(Unwrap(fs.enTri))
  /\ IsSome(fs.viTri) => PairTableSorted(Unwrap(fs.viTri))

\* build_trigram wrote a table of two pairs, the second word of the first
\* being the first word of the second, and the first pair has two edges
C17_Witness ==
  /\ reply.op = "build_trigram" /\ reply.lang = "en"
  /\ TrigramNumPairs(Unwrap(fs.enTri)) = 2
  /\ TrigramEntryOffset(Unwrap(fs.enTri), 1) > 8
  /\ TrigramEntryW2(Unwrap(fs.enTri), 0) = TrigramEntryW1(Unwrap(fs.enTri), 1)

(***************************************************************************)
(* validate_bigram: the format checks on en.bigram.bin, the probe list and *)
(* the exit status of the process.                                         *)
(***************************************************************************)
probes ==
  <<
    << "t", "h", "e" >>, << "a" >>, << "a", "n" >>, << "t", "h", "i", "s" >>,
    << "t", "h", "a", "t" >>, << "t", "h", "e", "s", "e" >>, << "t", "h", "o", "s", "e" >>,
    << "i" >>, << "y", "o", "u" >>, << "w", "e" >>, << "t", "h", "e", "y" >>, << "h", "e" >>,
    << "s", "h", "e" >>, << "i", "t" >>, << "i", "s" >>, << "a", "r", "e" >>, << "w", "a", "s" >>,
    << "w", "e", "r", "e" >>, << "h", "a", "v", "e" >>, << "h", "a", "s" >>, << "h", "a", "d" >>,
    << "w", "i", "l", "l" >>, << "w", "o", "u", "l", "d" >>, << "c", "a", "n" >>,
    << "c", "o", "u", "l", "d" >>, << "g", "o" >>, << "m", "a", "k", "e" >>,
    << "k", "n", "o", "w" >>, << "t", "h", "i", "n", "k" >>, << "w", "a", "n", "t" >>,
    << "n", "e", "e", "d" >>, << "s", "e", "e" >>, << "t", "a", "k", "e" >>, << "g", "e", "t" >>,
    << "c", "o", "m", "e" >>, << "w", "h", "a", "t" >>, << "w", "h", "e", "r", "e" >>,
    << "w", "h", "e", "n" >>, << "w", "h", "y" >>, << "h", "o", "w" >>, << "w", "h", "o" >>,
    << "a", "n", "d" >>, << "b", "u", "t" >>, << "o", "r" >>, << "i", "f" >>,
    << "b", "e", "c", "a", "u", "s", "e" >>, << "t", "o" >>, << "f", "o", "r" >>,
    << "w", "i", "t", "h" >>, << "i", "n" >>, << "o", "n" >>
  >>

\* the exit status of a process whose main returned Ok(()), returned Err, or
\* panicked
EXIT_OK == 0
EXIT_ERR == 1
EXIT_PANIC == 101

\* the checks on the edges of one entry: the numbers of weights larger than
\* the one before and of next_ids seen before in the entry
EntryWeight(data, edge_start, i) == U16FromLe(data, edge_start + i * 8 + 4)
EntryNextId(data, edge_start, i) == U32FromLe(data, edge_start + i * 8)
EntrySortedErrors(data, edge_start, len) ==
  Cardinality({ i \in 0..(len - 1) :
                  EntryWeight(data, edge_start, i)
                    > (IF i = 0 THEN 65535 ELSE EntryWeight(data, edge_start, i - 1)) })
EntryDuplicateErrors(data, edge_start, len) ==
  Cardinality({ i \in 0..(len - 1) :
                  \E j \in 0..(i - 1) :
                    EntryNextId(data, edge_start, j) = EntryNextId(data, edge_start, i) })

\* for prev_id in 0..vocab_size
RECURSIVE ValidateEntries(_, _, _, _)
ValidateEntries(data, vocab_size, prev_id, errs) ==
  IF prev_id >= vocab_size THEN Returned(errs)
  ELSE LET idx_offset == HEADER_SIZE + prev_id * 8
       IN IF ~InFile(data, idx_offset + 5) THEN Panic
          ELSE LET offset == UsizeFromLe(data, idx_offset)
                   len == U16FromLe(data, idx_offset + 4)
                   edge_start == HEADER_SIZE + vocab_size * 8 + offset
                   edge_end == edge_start + len * 8
               IN IF len = 0 THEN ValidateEntries(data, vocab_size, prev_id + 1, errs)
                  ELSE IF edge_end > Len(data)
                  THEN ValidateEntries(data, vocab_size, prev_id + 1,
                                       [ errs EXCEPT !.offset_errors = @ + 1 ])
                  ELSE ValidateEntries(data, vocab_size, prev_id + 1,
                         [ errs EXCEPT
                             !.sorted_errors = @ + EntrySortedErrors(data, edge_start, len),
                             !.duplicate_errors =
                               @ + EntryDuplicateErrors(data, edge_start, len) ])

\* vocab.iter().position(|w| w.to_lowercase() == lower)
ProbePosition(vocab, probe) ==
  LET hits == { i \in 1..Len(vocab) : to_lowercase(vocab[i]) = to_lowercase(probe) }
  IN IF hits = {} THEN None ELSE Some((CHOOSE i \in hits : \A k \in hits : i <= k) - 1)

\* the reads of the probe of one word: TRUE if one of them is past the end
ProbePanics(data, vocab, probe) ==
  LET pos == ProbePosition(vocab, probe)
  IN IF pos = None THEN FALSE
     ELSE LET idx_offset == HEADER_SIZE + Unwrap(pos) * 8
          IN IF ~InFile(data, idx_offset + 5) THEN TRUE
             ELSE LET offset == UsizeFromLe(data, idx_offset)
                      len == U16FromLe(data, idx_offset + 4)
                      edge_start == HEADER_SIZE + UsizeFromLe(data, 8) * 8 + offset
                  IN \E i \in 0..(Min2(len, 5) - 1) : ~InFile(data, edge_start + i * 8 + 3)

\* main of validate_bigram on en.bigram.bin (None: there is no such file) and the
\* vocabulary: the checks it printed and the exit status of the process
validate_bigram(bin, vocab) ==
  IF bin = None THEN [ status |-> EXIT_ERR, all_pass |-> FALSE ]
  ELSE LET data == Unwrap(bin)
       IN IF ~InFile(data, 19) THEN [ status |-> EXIT_PANIC, all_pass |-> FALSE ]
          ELSE LET magic_ok == U32FromLe(data, 0) = U32(BIGRAM_MAGIC)
                   version_ok == U32FromLe(data, 4) = U32(1)
                   vocab_size == UsizeFromLe(data, 8)
                   edges_count == UsizeFromLe(data, 12)
                   size_ok == Len(data) = HEADER_SIZE + vocab_size * 8 + edges_count * 8
                   checked == ValidateEntries(data, vocab_size, 0,
                                [ offset_errors |-> 0, sorted_errors |-> 0,
                                  duplicate_errors |-> 0 ])
               IN IF checked.panic THEN [ status |-> EXIT_PANIC, all_pass |-> FALSE ]
                  ELSE IF \E k \in 1..Len(probes) : ProbePanics(data, vocab, probes[k])
                  THEN [ status |-> EXIT_PANIC, all_pass |-> FALSE,
                         magic_ok |-> magic_ok, version_ok |-> version_ok,
                         size_ok |-> size_ok, errors |-> checked.ret ]
                  ELSE [ status |-> EXIT_OK,
                         all_pass |-> /\ magic_ok /\ version_ok /\ size_ok
                                      /\ checked.ret.offset_errors = 0
                                      /\ checked.ret.sorted_errors = 0
                                      /\ checked.ret.duplicate_errors = 0,
                         magic_ok |-> magic_ok, version_ok |-> version_ok,
                         size_ok |-> size_ok, errors |-> checked.ret ]

\* one run of validate_bigram in the directory of the model; en.vocab.txt
\* is there
ValidateBigram ==
  /\ reply' = [ op |-> "validate_bigram" ] @@ validate_bigram(fs.enBi, EnVocab)
  /\ UNCHANGED << fs, built, edits, histVars >>

ValidateNext ==
  \/ BuildBigramSharded
  \/ BuildBigramStream
  \/ TruncateFile
  \/ PokeFile
  \/ ValidateBigram

SpecValidate == BuildInit /\ [][ValidateNext]_vars

\* the last run of the validator ended without a panic on a file of which
\* one byte was cut off
ValidatedCutFile ==
  /\ reply.op = "validate_bigram"
  /\ edits = 1
  /\ IsSome(fs.enBi) /\ IsSome(built.bi)
  /\ Len(Unwrap(fs.enBi)) + 1
       = HEADER_SIZE + 8 * Len(Unwrap(built.bi).index) + 8 * Len(Unwrap(built.bi).edges)

\* C18: the bigram validator ends with a non-zero exit status whenever at
\* least one format check fails (magic, version, size, edge range, weight
\* order, duplicate next_id), in particular for a bigram file cut off by one
\* byte; it ends with status 0 only when every check passes.
C18_ValidatorExitStatus ==
  reply.op = "validate_bigram" =>
    /\ (reply.status = EXIT_OK) = reply.all_pass
    /\ ValidatedCutFile => reply.status # EXIT_OK

\* the length of a bigram file is not the one its header gives
BigramLengthOff(data) ==
  \/ ~InFile(data, 15)
  \/ Len(data) # HEADER_SIZE + 8 * BigramVocabSize(data) + 8 * BigramEdgesCount(data)

\* C19: when the length of the bigram file differs from
\* 32 + 8 * vocab_size + 8 * edges_count, for example after it was cut off
\* by one byte, suggest returns an empty suggestion list for every prefix
\* and does not crash.
C19_MalformedBigramEmpty ==
  ( reply.op = "suggest" /\ BigramLengthOff(Unwrap(fs.enBi)) ) =>
    ( ~reply.panic /\ reply.printed = << >> )

(***************************************************************************)
(* The history file out of order: cut short (save writes the file in       *)
(* place, File::create empties it first) or closed to the process.         *)
(***************************************************************************)
\* only a part of the document is in the file: no JSON value is complete
CutHistoryFile ==
  /\ file.exists /\ ~file.short
  /\ file' = [ file EXCEPT !.short = TRUE ]
  /\ lastOp' = "cut"
  /\ UNCHANGED << history, now, learns, ghost, saved >>
  /\ UNCHANGED engVars

\* the permissions of the file are taken away
LockHistoryFile ==
  /\ file.exists /\ ~file.locked
  /\ file' = [ file EXCEPT !.locked = TRUE ]
  /\ lastOp' = "lock"
  /\ UNCHANGED << history, now, learns, ghost, saved >>
  /\ UNCHANGED engVars

StoreNext ==
  \/ \E text \in Texts : Learn(text)
  \/ Save
  \/ Load
  \/ CutHistoryFile
  \/ LockHistoryFile

SpecStore == HistInit /\ [][StoreNext]_vars

\* C20: UserHistory::load returns an empty history, not an error, both when
\* the file does not exist and when it exists but cannot be opened or its
\* content fails to deserialize; UserHistory::save returns the error to the
\* caller when the file cannot be created or written.
C20_LoadEmptyOnError ==
  /\ ( lastOp \in { "load", "load_err" }
       /\ (~file.exists \/ file.locked \/ file.short) )
       => ( lastOp = "load" /\ history = UserHistoryNew )
  /\ ( lastOp \in { "save", "save_err" } /\ file.exists /\ file.locked )
       => lastOp = "save_err"

(***************************************************************************)
(* save step by step: File::create empties the target, to_writer then      *)
(* writes the document into it; the process may end in between.            *)
(***************************************************************************)
InSave == lastOp = "save_create"

\* File::create(path): the target exists and holds nothing of the document yet
SaveCreate ==
  /\ ~InSave
  /\ ~(file.exists /\ file.locked)
  /\ file' = [ exists |-> TRUE, doc |-> Serialize(history), short |-> TRUE, locked |-> FALSE ]
  /\ lastOp' = "save_create"
  /\ UNCHANGED << history, now, learns, ghost, saved >>
  /\ UNCHANGED engVars

\* serde_json::to_writer(writer, self) wrote the whole document
SaveWrite ==
  /\ InSave
  /\ file' = [ file EXCEPT !.short = FALSE ]
  /\ saved' = [ h |-> history, ghost |-> ghost ]
  /\ lastOp' = "save"
  /\ UNCHANGED << history, now, learns, ghost >>
  /\ UNCHANGED engVars

\* serde_json::to_writer failed (the disk is full): save returns the error
SaveWriteErr ==
  /\ InSave
  /\ lastOp' = "save_err"
  /\ UNCHANGED << history, now, file, learns, ghost, saved >>
  /\ UNCHANGED engVars

\* the process ends during save; the next process starts with a new history
Crash ==
  /\ InSave
  /\ history' = UserHistoryNew
  /\ ghost' = GhostNew
  /\ lastOp' = "crash"
  /\ UNCHANGED << now, file, learns, saved >>
  /\ UNCHANGED engVars

LearnIdle == ~InSave /\ \E text \in Texts : Learn(text)
LoadIdle == ~InSave /\ Load

CrashNext ==
  \/ LearnIdle
  \/ LoadIdle
  \/ SaveCreate
  \/ SaveWrite
  \/ SaveWriteErr
  \/ Crash

SpecCrash == HistInit /\ [][CrashNext]_vars

\* C21: save replaces the history file atomically: at every point of a
\* save, a failure or a crash midway included, the target path holds the
\* complete previous document or the complete new one, never an empty or
\* partly written one.
C21_SaveAtomic ==
  file.exists => ( ~file.short /\ file.doc = Serialize(saved.h) )

(***************************************************************************)
(* Properties of the builders across runs and across builders.             *)
(***************************************************************************)
\* the files that the runs of the last builder on its inputs can write
RunsOfLastBuild ==
  IF reply.op = "build_bigram"
  THEN { o.data : o \in ShardedOutcomes(reply.corpus, reply.shards, reply.top_n) }
  ELSE { o.data : o \in StreamOutcomes(reply.corpus, reply.top_n) }

\* C22: for a fixed corpus, lexicon and parameters every run of a builder
\* writes the same successor list for each index entry, also where several
\* successors of an entry have equal counts.
C22_BuildDeterministic ==
  reply.op \in { "build_bigram", "build_bigram_stream" } =>
    RunsOfLastBuild = { Unwrap(fs.enBi) }

(***************************************************************************)
(* Canonicalization applied to raw strings.                                *)
(***************************************************************************)
MaxRawLen == 3
RawChars == { "H", "e", "COMB_ACUTE", "RSQUO", "4", "JAMO_G", "JAMO_A" }
RawStrings == UNION { [ 1..n -> RawChars ] : n \in 0..MaxRawLen }

\* a raw string is given
CanonInit ==
  /\ HistNew
  /\ fs = [ enTri |-> None, viTri |-> None, enBi |-> None ]
  /\ built = [ en |-> None, vi |-> None, bi |-> None ]
  /\ edits = 0
  /\ \E s \in RawStrings :
       reply = [ op |-> "input", by |-> "none", raw |-> s, once |-> s, twice |-> s ]

\* user_history.rs normalize_token on the string and on its result
NormalizeUser ==
  /\ reply' = [ reply EXCEPT !.op = "normalize_token", !.by = "user_history",
                             !.once = normalize_token(reply.raw),
                             !.twice = normalize_token(normalize_token(reply.raw)) ]
  /\ UNCHANGED << fs, built, edits, histVars >>

\* build_bigram.rs normalize_token on the string and on its result
NormalizeBuild ==
  /\ reply' = [ reply EXCEPT !.op = "normalize_token", !.by = "build_bigram",
                             !.once = build_normalize_token(reply.raw),
                             !.twice = build_normalize_token(build_normalize_token(reply.raw)) ]
  /\ UNCHANGED << fs, built, edits, histVars >>

\* suggest_hybrid.rs normalization of a word of the query, on the string and
\* on its result
NormalizeQuery ==
  /\ reply' = [ reply EXCEPT !.op = "normalize_token", !.by = "suggest_hybrid",
                             !.once = hybrid_normalize(reply.raw),
                             !.twice = hybrid_normalize(hybrid_normalize(reply.raw)) ]
  /\ UNCHANGED << fs, built, edits, histVars >>

CanonNext == NormalizeUser \/ NormalizeBuild \/ NormalizeQuery

SpecCanon == CanonInit /\ [][CanonNext]_vars

\* C23: canonicalization is idempotent: normalizing a normalized string
\* gives the same string, for the builder and engine normalization and for
\* the user-history normalization.
C23_CanonIdempotent ==
  reply.op = "normalize_token" => reply.twice = reply.once

\* the successor list of entry id of a bigram file: next_ids and weights
BigramEntryList(data, id) ==
  << BigramEntryNextIds(data, id), BigramEntryWeights(data, id) >>

\* C26: for any corpus, lexicon and top_n the streaming builder and the
\* sharded builder produce the same artifact: for every previous id the
\* successor list of the streaming-built file equals that of the
\* sharded-built file.
C26_StreamEqualsSharded ==
  reply.op = "build_bigram_stream" =>
    \A num_shards \in 1..MaxShards :
      \A o \in ShardedOutcomes(reply.corpus, num_shards, reply.top_n) :
        \A id \in 0..(Len(EnVocab) - 1) :
          BigramEntryList(Unwrap(fs.enBi), id) = BigramEntryList(o.data, id)

(***************************************************************************)
(* The pairs the bigram builders count (shard_bigrams of build_bigram, the *)
(* pass over the corpus of build_bigram_stream).                           *)
(***************************************************************************)
\* the word canonicalizes to a non-empty token that maps to a global id
MapsToId(word) ==
  /\ build_normalize_token(word) # << >>
  /\ build_normalize_token(word) \in DOMAIN bigram_canonical_map
GlobalIdOf(word) == bigram_canonical_map[build_normalize_token(word)]

\* the positions (line, word) of the corpus where two consecutive words of a
\* line both map to ids
PairPositions(corpus) ==
  { p \in UNION { { << j, i >> : i \in 1..(Len(corpus[j]) - 1) } : j \in 1..Len(corpus) } :
      MapsToId(corpus[p[1]][p[2]]) /\ MapsToId(corpus[p[1]][p[2] + 1]) }
PairAt(corpus, p) == << GlobalIdOf(corpus[p[1]][p[2]]), GlobalIdOf(corpus[p[1]][p[2] + 1]) >>

\* C27: a run of either bigram builder has counted each pair (prev, next) once
\* for every position of the corpus where two consecutive words of one line
\* both canonicalize to non-empty tokens that map to global ids, the first to
\* prev and the second to next, and has counted nothing else: a word that is
\* empty after normalization, a word without id and the end of a line reset
\* prev.
C27_PairsCounted ==
  reply.op \in { "build_bigram", "build_bigram_stream" } =>
    /\ Len(Unwrap(built.bi).emitted) = Cardinality(PairPositions(reply.corpus))
    /\ \A prev, next \in 0..(Len(EnVocab) - 1) :
         Occurrences(Unwrap(built.bi).emitted, << prev, next >>)
           = Cardinality({ p \in PairPositions(reply.corpus) :
                             PairAt(reply.corpus, p) = << prev, next >> })

\* a builder has run on a corpus with a line where a word without id, or empty
\* after normalization, stands between two words that map to ids, and with
\* more than one line, and has counted pairs
C27_Witness ==
  /\ reply.op \in { "build_bigram", "build_bigram_stream" }
  /\ Len(reply.corpus) > 1
  /\ Unwrap(built.bi).emitted # << >>
  /\ \E j \in 1..Len(reply.corpus) : \E i \in 2..(Len(reply.corpus[j]) - 1) :
       /\ ~MapsToId(reply.corpus[j][i])
       /\ MapsToId(reply.corpus[j][i - 1])
       /\ MapsToId(reply.corpus[j][i + 1])

(***************************************************************************)
(* The canonical maps on base lexicons: the cased forms of one token and   *)
(* a word of its own, in every order, with every choice of priors.         *)
(***************************************************************************)
MaxLexLen == 3
MaxPrior == 2

LexForms == { << "h", "e" >>, << "H", "e" >>, << "h", "E" >>, << "H", "E" >>, << "G", "o" >> }
\* the vocabulary files: distinct words, one per line
LexVocabs ==
  UNION { { v \in [ 1..n -> LexForms ] : \A i, j \in 1..n : i # j => v[i] # v[j] } :
            n \in 1..MaxLexLen }
LexPriors(n) == [ 1..n -> 1..MaxPrior ]

\* a lexicon is given: the vocabulary file and the prior of each line
LexiconInit ==
  /\ HistNew
  /\ fs = [ enTri |-> None, viTri |-> None, enBi |-> None ]
  /\ built = [ en |-> None, vi |-> None, bi |-> None ]
  /\ edits = 0
  /\ \E vocab \in LexVocabs : \E prob \in LexPriors(Len(vocab)) :
       reply = [ op |-> "input", by |-> "none", vocab |-> vocab, prob |-> prob,
                 map |-> EmptyMap ]

\* lib.rs build_canonical_map, as suggest_hybrid and build_trigram call it
SharedCanonicalMap ==
  /\ reply' = [ reply EXCEPT !.op = "build_canonical_map", !.by = "lib",
                             !.map = build_canonical_map(reply.vocab, reply.prob) ]
  /\ UNCHANGED << fs, built, edits, histVars >>

\* build_canonical_map of build_bigram.rs and of build_bigram_stream.rs
BuilderCanonicalMap ==
  /\ reply' = [ reply EXCEPT !.op = "build_canonical_map", !.by = "build_bigram",
                             !.map = bigram_build_canonical_map(reply.vocab, reply.prob) ]
  /\ UNCHANGED << fs, built, edits, histVars >>

LexiconNext == SharedCanonicalMap \/ BuilderCanonicalMap

SpecLexicon == LexiconInit /\ [][LexiconNext]_vars

\* the lines of the vocabulary whose word folds to the token
FormsOf(vocab, token) == { i \in 1..Len(vocab) : to_lowercase(vocab[i]) = token }
LexTokens(vocab) == { to_lowercase(vocab[i]) : i \in 1..Len(vocab) }

\* the line the rule of the shared map selects for a token
SelectedLine(vocab, prob, token) ==
  LET forms == FormsOf(vocab, token)
      exact == { i \in forms : vocab[i] = token }
      top == { i \in forms : \A j \in forms : prob[i] >= prob[j] }
  IN IF exact # {} THEN CHOOSE i \in exact : TRUE
     ELSE CHOOSE i \in top : \A j \in top : i <= j

\* C24: the shared build_canonical_map maps each lowercase token to the id
\* of its all-lowercase form if the lexicon holds one, whatever the priors
\* and the order of the forms; otherwise to the id of the form with the
\* highest prior, the first encountered among equals.
C24_CanonicalChoice ==
  ( reply.op = "build_canonical_map" /\ reply.by = "lib" ) =>
    /\ DOMAIN reply.map = LexTokens(reply.vocab)
    /\ \A token \in LexTokens(reply.vocab) :
         reply.map[token] = SelectedLine(reply.vocab, reply.prob, token) - 1

\* the all-lowercase form came after a cased form of higher prior and was
\* selected, and the other token has its only form
C24_Witness ==
  /\ reply.op = "build_canonical_map" /\ reply.by = "lib"
  /\ Len(reply.vocab) = 3
  /\ reply.vocab[2] = << "h", "e" >> /\ reply.vocab[3] = << "G", "o" >>
  /\ reply.prob = << 2, 1, 1 >>
  /\ reply.map[<< "h", "e" >>] = 1
  /\ reply.map[<< "g", "o" >>] = 2

\* C25: for every base lexicon the canonical map of the bigram builders
\* gives each lowercase token the id that the shared build_canonical_map
\* gives it.
C25_SameCanonicalMap ==
  ( reply.op = "build_canonical_map" /\ reply.by = "build_bigram" ) =>
    reply.map = build_canonical_map(reply.vocab, reply.prob)

(***************************************************************************)
(* One TopNTracker of the user history, driven through its own functions:  *)
(* new, increment (with prune), and a save followed by a load.             *)
(***************************************************************************)
MaxTrackerTopN == 1
MaxIncrements == 103
MaxAgain == 2
\* most successors a tracker holds when it is saved and loaded
MaxReloadLen == 3

TrackerInit ==
  /\ HistNew
  /\ fs = [ enTri |-> None, viTri |-> None, enBi |-> None ]
  /\ built = [ en |-> None, vi |-> None, bi |-> None ]
  /\ edits = 0
  /\ \E top_n \in 0..MaxTrackerTopN :
       reply = [ op |-> "new", tr |-> TopNTrackerNew(top_n), before |-> TopNTrackerNew(top_n),
                 next_id |-> 0, delta |-> 0, fresh |-> 0, again |-> 0 ]

\* tracker.increment(next_id, delta, now)
IncrementCall(next_id, delta) ==
  /\ \E tr2 \in IncrementOutcomes(reply.tr, next_id, delta, now) :
       reply' = [ reply EXCEPT !.op = "increment", !.before = reply.tr, !.tr = tr2,
                               !.next_id = next_id, !.delta = delta,
                               !.fresh = IF next_id = reply.fresh THEN @ + 1 ELSE @,
                               !.again = IF next_id = reply.fresh THEN @ ELSE @ + 1 ]
  /\ UNCHANGED << fs, built, edits, histVars >>

\* increment of a successor that was never given before, by a delta of its own
IncrementFresh ==
  /\ reply.fresh + reply.again < MaxIncrements
  /\ IncrementCall(reply.fresh, reply.fresh + 1)

\* increment by 1 of the tracked successor of the lowest id
IncrementAgain ==
  /\ reply.fresh + reply.again < MaxIncrements
  /\ reply.again < MaxAgain
  /\ DOMAIN reply.tr.counts # {}
  /\ IncrementCall(CHOOSE k \in DOMAIN reply.tr.counts : \A j \in DOMAIN reply.tr.counts : k <= j, 1)

\* the tracker is saved with its history and loaded again: counts are kept,
\* the skipped fields are filled with the Default of usize
Reload ==
  /\ reply.tr.top_n # USIZE_DEFAULT
  /\ Cardinality(DOMAIN reply.tr.counts) <= MaxReloadLen
  /\ reply' = [ reply EXCEPT !.op = "load",
                             !.tr = [ counts |-> reply.tr.counts, top_n |-> USIZE_DEFAULT,
                                      prune_threshold |-> USIZE_DEFAULT ] ]
  /\ UNCHANGED << fs, built, edits, histVars >>

TrackerNext ==
  \/ IncrementFresh
  \/ IncrementAgain
  \/ Reload

SpecTracker == TrackerInit /\ [][TrackerNext]_vars

\* the entries counts holds after the update of increment, before any prune
UpdatedKeys == DOMAIN reply.before.counts \cup { reply.next_id }
UpdatedStat(k) ==
  IF k # reply.next_id THEN reply.before.counts[k]
  ELSE [ count |-> (IF k \in DOMAIN reply.before.counts THEN reply.before.counts[k].count ELSE 0)
                   + reply.delta,
         last_used |-> now ]

\* C28: after every increment the tracker holds at most top_n*100 successors;
\* an increment that brings their number above top_n*100 leaves exactly
\* 2*top_n of them, and the score (at the time of the increment) of each one
\* kept is at least the score of each one dropped; an increment that does not
\* bring their number above top_n*100 removes none.  Every entry left has the
\* count and time the update gave it.
C28_PruneRule ==
  reply.op = "increment" =>
    LET top_n == reply.tr.top_n
        kept == DOMAIN reply.tr.counts
    IN /\ Cardinality(kept) <= top_n * 100
       /\ kept \subseteq UpdatedKeys
       /\ \A k \in kept : reply.tr.counts[k] = UpdatedStat(k)
       /\ Cardinality(UpdatedKeys) > top_n * 100 =>
            /\ Cardinality(kept) = 2 * top_n
            /\ \A k \in kept : \A d \in UpdatedKeys \ kept :
                 EdgeStatScore(UpdatedStat(k), now) >= EdgeStatScore(UpdatedStat(d), now)
       /\ Cardinality(UpdatedKeys) <= top_n * 100 => kept = UpdatedKeys

\* an increment has brought a tracker made by new(1) to 101 successors and the
\* tracker was pruned to 2
C28_Witness ==
  /\ reply.op = "increment"
  /\ reply.tr.top_n = 1
  /\ Cardinality(UpdatedKeys) = 101
  /\ Cardinality(DOMAIN reply.tr.counts) = 2

(***************************************************************************)
(* quantize_weight (the same function in build_bigram, build_bigram_stream *)
(* and build_trigram) on counts as the builders pass them: the count of an *)
(* entry of a list and the count of the first entry of that list.          *)
(***************************************************************************)
MaxQuantCount == 10

QuantizeInit ==
  /\ HistNew
  /\ fs = [ enTri |-> None, viTri |-> None, enBi |-> None ]
  /\ built = [ en |-> None, vi |-> None, bi |-> None ]
  /\ edits = 0
  /\ \E max_count \in 0..MaxQuantCount : \E count \in 0..max_count :
       reply = [ op |-> "input", count |-> count, max_count |-> max_count, weight |-> 0 ]

QuantizeWeight ==
  /\ reply.op = "input"
  /\ reply' = [ reply EXCEPT !.op = "quantize_weight",
                             !.weight = quantize_weight(reply.count, reply.max_count) ]
  /\ UNCHANGED << fs, built, edits, histVars >>

QuantizeNext == QuantizeWeight

SpecQuantize == QuantizeInit /\ [][QuantizeNext]_vars

\* C29: quantize_weight(max, max) = 65535 for every max >= 1, and
\* quantize_weight returns 0 when count is 0 or max is 0.
C29_TopWeight ==
  reply.op = "quantize_weight" =>
    /\ (reply.count = 0 \/ reply.max_count = 0) => reply.weight = 0
    /\ (reply.max_count >= 1 /\ reply.count = reply.max_count) => reply.weight = 65535

(***************************************************************************)
(* The two passes of the trigram cache builder and what it writes.         *)
(***************************************************************************)
RECURSIVE TotalOf(_)
TotalOf(counts) ==
  IF DOMAIN counts = {} THEN 0
  ELSE LET k == CHOOSE x \in DOMAIN counts : TRUE
       IN counts[k] + TotalOf([ j \in DOMAIN counts \ { k } |-> counts[j] ])

\* the positions of the pair table of the file that hold the pair pr
TableRowsOf(data, pr) ==
  { i \in 0..(TrigramNumPairs(data) - 1) :
      TrigramEntryW1(data, i) = U32(pr[1]) /\ TrigramEntryW2(data, i) = U32(pr[2]) }

LastTrigramBuild == Unwrap(built[reply.lang])
LastTrigramFile == Unwrap(TrigramOf(fs, reply.lang))

\* C30: after a run of the trigram cache builder, for every pair selected in
\* pass 1 the successor counts collected in pass 2 sum to the frequency pass 1
\* counted for the pair, every selected pair stands in the pair table of the
\* file with at least one edge, and num_pairs of the header is the smaller of
\* max_pairs and the number of distinct pairs pass 1 counted.
C30_SelectedPairsWritten ==
  reply.op = "build_trigram" =>
    /\ \A pr \in LastTrigramBuild.top_pairs :
         /\ TotalOf(LastTrigramBuild.trigram_counts[pr]) = LastTrigramBuild.pair_freq[pr]
         /\ \E i \in TableRowsOf(LastTrigramFile, pr) : TrigramEntryLen(LastTrigramFile, i) >= 1
    /\ TrigramNumPairs(LastTrigramFile)
         = Min2(reply.max_pairs, Cardinality(DOMAIN LastTrigramBuild.pair_freq))
====
